---- MODULE Spec2Model ----
(***************************************************************************)
(* Lingread: the multi-track speed reader.                                 *)
(*                                                                         *)
(* The Preact engine (src/unnamed/part_001, component App) is modelled as  *)
(* a state machine over its hook state (tracks, wordIndex, wpm, isPlaying, *)
(* isSeeking), its timer handle (timerRef), the browser's set of live      *)
(* interval timers, the deferred setTimeout callbacks and the onFile calls *)
(* that are still awaiting the file text and its SHA-256.                  *)
(*                                                                         *)
(* One action is one browser task: an event handler, a timer callback or   *)
(* the continuation of onFile after its awaits, together with the render   *)
(* it causes and the useEffect callbacks of that render (run to the point  *)
(* where no effect changes hook state any more).                           *)
(***************************************************************************)
EXTENDS Integers, Sequences, FiniteSets, TLC

\* ------------------------------------------------------------------ bounds
\* Largest number of tracks the registry is grown to.
MaxTracks == 2
\* Largest number of onFile calls in flight at once.
MaxLoads == 1

\* timerRef.current = null; window.setInterval returns positive handles.
NULL == 0

\* fingerprint: undefined.  Only its truthiness is ever tested, and the hex
\* digest of a text is never the empty string.
undefined == <<>>

\* Only({F(x) : x \in {e}}) is F(e), with e evaluated once.
Only(S) == CHOOSE x \in S : TRUE

Min(a, b) == IF a <= b THEN a ELSE b

\* The concatenation of a sequence of sequences, by halves.
RECURSIVE Concat(_)
Concat(ss) ==
    IF Len(ss) = 0 THEN <<>>
    ELSE IF Len(ss) = 1 THEN ss[1]
    ELSE Concat(SubSeq(ss, 1, Len(ss) \div 2)) \o Concat(SubSeq(ss, Len(ss) \div 2 + 1, Len(ss)))
Max(a, b) == IF a >= b THEN a ELSE b

\* ------------------------------------------------------------- pure helpers
\* A string is a sequence of characters; "nbsp" stands for U+00A0.
Whitespace == {" ", "\n", "\t", "nbsp", "bom"}

\* Math.max(min, Math.min(max, n))
clamp(n, min, max) == Max(min, Min(max, n))

\* text.replace(/ /g, ' ')
ReplaceNbsp(text) == [k \in 1..Len(text) |-> IF text[k] = "nbsp" THEN " " ELSE text[k]]

\* String.prototype.split(/\s+/): the pieces between the maximal whitespace
\* runs, the empty pieces at either end included.
RECURSIVE SplitFrom(_, _, _, _, _)
SplitFrom(text, k, cur, acc, inRun) ==
    IF k > Len(text) THEN Append(acc, cur)
    ELSE IF text[k] \in Whitespace
         THEN IF inRun THEN SplitFrom(text, k + 1, cur, acc, TRUE)
              ELSE SplitFrom(text, k + 1, <<>>, Append(acc, cur), TRUE)
         ELSE SplitFrom(text, k + 1, Append(cur, text[k]), acc, FALSE)

SplitWhitespace(text) == SplitFrom(text, 1, <<>>, <<>>, FALSE)

\* String.prototype.trim
RECURSIVE TrimLeft(_)
TrimLeft(w) == IF w # <<>> /\ Head(w) \in Whitespace THEN TrimLeft(Tail(w)) ELSE w

RECURSIVE TrimRight(_)
TrimRight(w) ==
    IF w # <<>> /\ w[Len(w)] \in Whitespace THEN TrimRight(SubSeq(w, 1, Len(w) - 1)) ELSE w

Trim(w) == TrimRight(TrimLeft(w))

\* Faulty variant: the empty pieces are kept.
FilterKeepsEmpty(ws) == ws

\* Array.prototype.filter(Boolean) on strings: the empty string is falsy.
RECURSIVE FilterNonEmpty(_)
FilterNonEmpty(ws) ==
    IF ws = <<>> THEN <<>>
    ELSE IF Head(ws) = <<>> THEN FilterNonEmpty(Tail(ws))
         ELSE <<Head(ws)>> \o FilterNonEmpty(Tail(ws))

tokenize(text) ==
    LET pieces == SplitWhitespace(ReplaceNbsp(text))
    IN FilterNonEmpty([k \in 1..Len(pieces) |-> Trim(pieces[k])])

\* Two hex digits per byte of the digest.  SHA-256 itself is not computed:
\* the digest is taken to be collision-free, so the hex string determines
\* the text it was computed from.
HexOf(c) ==
    CASE c = " "    -> <<"2", "0">>
      [] c = "\n"   -> <<"0", "a">>
      [] c = "\t"   -> <<"0", "9">>
      [] c = "nbsp" -> <<"a", "0">>
      [] c = "x"    -> <<"7", "8">>
      [] c = "y"    -> <<"7", "9">>
      [] c = "z"    -> <<"7", "a">>
      [] OTHER      -> <<"3", "f">>

sha256Hex(text) == Concat([k \in 1..Len(text) |-> HexOf(text[k])]) \o <<"e">>

\* ------------------------------------------------------- resume token codec
\* The printable ASCII characters, code 32 first ("grave" stands for U+0060).
Ascii ==
  <<" ", "!", "\"", "#", "$", "%", "&", "'", "(", ")", "*", "+",
    ",", "-", ".", "/", "0", "1", "2", "3", "4", "5", "6", "7",
    "8", "9", ":", ";", "<", "=", ">", "?", "@", "A", "B", "C",
    "D", "E", "F", "G", "H", "I", "J", "K", "L", "M", "N", "O",
    "P", "Q", "R", "S", "T", "U", "V", "W", "X", "Y", "Z", "[",
    "\\", "]", "^", "_", "grave", "a", "b", "c", "d", "e", "f", "g",
    "h", "i", "j", "k", "l", "m", "n", "o", "p", "q", "r", "s",
    "t", "u", "v", "w", "x", "y", "z", "{", "|", "}", "~">>

Base64Alphabet ==
  <<"A", "B", "C", "D", "E", "F", "G", "H", "I", "J", "K", "L", "M", "N", "O", "P",
    "Q", "R", "S", "T", "U", "V", "W", "X", "Y", "Z", "a", "b", "c", "d", "e", "f",
    "g", "h", "i", "j", "k", "l", "m", "n", "o", "p", "q", "r", "s", "t", "u", "v",
    "w", "x", "y", "z", "0", "1", "2", "3", "4", "5", "6", "7", "8", "9", "+", "/">>

IndexIn(table, c) == CHOOSE k \in 1..Len(table) : table[k] = c
Occurs(table, c) == \E k \in 1..Len(table) : table[k] = c

\* The decoder's replacement character U+FFFD.
Replacement == "fffd"

\* new TextEncoder().encode: the UTF-8 bytes of a string.  U+00A0 is the one
\* character of the alphabet outside ASCII; U+FFFD encodes as three bytes.
Utf8Of(c) ==
    CASE c = "nbsp" -> <<194, 160>>
      [] c = Replacement -> <<239, 191, 189>>
      [] c = "\n" -> <<10>>
      [] c = "\t" -> <<9>>
      [] OTHER -> <<IndexIn(Ascii, c) + 31>>

TextEncode(str) == Concat([k \in 1..Len(str) |-> Utf8Of(str[k])])

\* new TextDecoder().decode: not fatal, so a byte sequence that is no UTF-8
\* becomes U+FFFD.
TextDecode(bytes) ==
    LET at(k) == IF k >= 1 /\ k <= Len(bytes) THEN bytes[k] ELSE 0
        \* a continuation byte of U+00A0 or U+FFFD
        continues(k) ==
            \/ at(k) = 160 /\ at(k - 1) = 194
            \/ at(k) = 191 /\ at(k - 1) = 239 /\ at(k + 1) = 189
            \/ at(k) = 189 /\ at(k - 1) = 191 /\ at(k - 2) = 239
        char(k) ==
            LET b == at(k)
            IN IF continues(k) THEN <<>>
               ELSE IF b >= 32 /\ b <= 126 THEN <<Ascii[b - 31]>>
               ELSE IF b = 10 THEN <<"\n">>
               ELSE IF b = 9 THEN <<"\t">>
               ELSE IF b = 194 /\ at(k + 1) = 160 THEN <<"nbsp">>
               ELSE <<Replacement>>
    IN Concat([k \in 1..Len(bytes) |-> char(k)])

\* btoa: three bytes to four characters, '=' padding.
Btoa(bytes) ==
    LET c(n) == Base64Alphabet[n + 1]
        group(g) ==
            LET b1 == bytes[3 * g - 2]
                b2 == IF 3 * g - 1 <= Len(bytes) THEN bytes[3 * g - 1] ELSE 0
                b3 == IF 3 * g <= Len(bytes) THEN bytes[3 * g] ELSE 0
            IN <<c(b1 \div 4), c((b1 % 4) * 16 + b2 \div 16),
                 IF 3 * g - 1 <= Len(bytes) THEN c((b2 % 16) * 4 + b3 \div 64) ELSE "=",
                 IF 3 * g <= Len(bytes) THEN c(b3 % 64) ELSE "=">>
    IN Concat([g \in 1..((Len(bytes) + 2) \div 3) |-> group(g)])

ReplaceChar(str, from, to) == [k \in 1..Len(str) |-> IF str[k] = from THEN to ELSE str[k]]

\* .replace(/=+$/g, '')
RECURSIVE StripPadding(_)
StripPadding(str) ==
    IF str # <<>> /\ str[Len(str)] = "=" THEN StripPadding(SubSeq(str, 1, Len(str) - 1)) ELSE str

base64UrlEncode(bytes) == StripPadding(ReplaceChar(ReplaceChar(Btoa(bytes), "+", "-"), "/", "_"))

\* atob (forgiving-base64 decode): ASCII whitespace is removed, up to two
\* trailing '=' of a multiple-of-four input are removed, then a length of 1
\* modulo 4 or a character outside the alphabet is an InvalidCharacterError.
AsciiWhitespace == {" ", "\n", "\t"}

RemoveAll(str, set) ==
    Concat([k \in 1..Len(str) |-> IF str[k] \in set THEN <<>> ELSE <<str[k]>>])

\* Four sextets to three bytes; a last group of two or three sextets gives
\* one or two bytes.
SextetsToBytes(q) ==
    LET at(k) == IF k <= Len(q) THEN q[k] ELSE 0
        group(g) ==
            LET three == <<at(4 * g - 3) * 4 + at(4 * g - 2) \div 16,
                           (at(4 * g - 2) % 16) * 16 + at(4 * g - 1) \div 4,
                           (at(4 * g - 1) % 4) * 64 + at(4 * g)>>
                have == Min(4, Len(q) - (4 * g - 4))
            IN SubSeq(three, 1, have - 1)
    IN Concat([g \in 1..((Len(q) + 3) \div 4) |-> group(g)])

Atob(data) ==
    LET d0 == RemoveAll(data, AsciiWhitespace)
        d1 == IF Len(d0) % 4 = 0 /\ Len(d0) >= 1 /\ d0[Len(d0)] = "="
              THEN IF Len(d0) >= 2 /\ d0[Len(d0) - 1] = "="
                   THEN SubSeq(d0, 1, Len(d0) - 2)
                   ELSE SubSeq(d0, 1, Len(d0) - 1)
              ELSE d0
    IN IF Len(d1) % 4 = 1 \/ \E k \in 1..Len(d1) : ~Occurs(Base64Alphabet, d1[k])
       THEN [ok |-> FALSE, bytes |-> <<>>]
       ELSE [ok |-> TRUE,
             bytes |-> SextetsToBytes([k \in 1..Len(d1) |-> IndexIn(Base64Alphabet, d1[k]) - 1])]

Repeat(c, n) == [k \in 1..n |-> c]

\* Faulty variant: '-' is not restored to '+' before atob.
base64UrlDecodeNoRestore(s) ==
    LET padLen == (4 - (Len(s) % 4)) % 4
    IN Atob(ReplaceChar(s \o Repeat("=", padLen), "_", "/"))

\* base64UrlDecode: pad to a multiple of four, restore '+' and '/', atob.
base64UrlDecode(s) ==
    LET padLen == (4 - (Len(s) % 4)) % 4
        padded == ReplaceChar(ReplaceChar(s \o Repeat("=", padLen), "-", "+"), "_", "/")
    IN Atob(padded)

\* ---------------------------------------------------------------- JSON values
JNull == [t |-> "null"]
JUndefined == [t |-> "undefined"]
JBool(b) == [t |-> "bool", b |-> b]
\* A number: sign, integer part, fraction digits (no trailing zeros).
JNum(neg, int, frac) == [t |-> "num", neg |-> neg, int |-> int, frac |-> frac]
JInt(n) == IF n < 0 THEN JNum(TRUE, -n, <<>>) ELSE JNum(FALSE, n, <<>>)
JStr(s) == [t |-> "str", s |-> s]
JArr(items) == [t |-> "arr", items |-> items]
JObj(members) == [t |-> "obj", members |-> members]
Member(key, val) == [key |-> key, val |-> val]

DigitChars == {"0", "1", "2", "3", "4", "5", "6", "7", "8", "9"}
DigitVal(c) == IndexIn(Ascii, c) - 17
DigitChar(d) == Ascii[d + 17]

RECURSIVE NatToString(_)
NatToString(n) == IF n < 10 THEN <<DigitChar(n)>> ELSE NatToString(n \div 10) \o <<DigitChar(n % 10)>>

\* JSON.stringify of a string: quotes, with '"', '\' and control characters escaped.
EscapeJson(s) ==
    Concat([k \in 1..Len(s) |->
              CASE s[k] = "\"" -> <<"\\", "\"">>
                [] s[k] = "\\" -> <<"\\", "\\">>
                [] s[k] = "\n" -> <<"\\", "n">>
                [] s[k] = "\t" -> <<"\\", "t">>
                [] OTHER -> <<s[k]>>])

QuoteJson(s) == <<"\"">> \o EscapeJson(s) \o <<"\"">>

NumToJson(v) ==
    (IF v.neg /\ (v.int # 0 \/ v.frac # <<>>) THEN <<"-">> ELSE <<>>)
    \o NatToString(v.int) \o (IF v.frac = <<>> THEN <<>> ELSE <<".">> \o v.frac)

\* JSON.stringify: members whose value is undefined are left out, an
\* undefined array item is written null.
RECURSIVE JsonStringify(_)
RECURSIVE StringifyMembers(_, _)
RECURSIVE StringifyItems(_, _)
JsonStringify(v) ==
    CASE v.t = "null" -> <<"n", "u", "l", "l">>
      [] v.t = "undefined" -> <<"n", "u", "l", "l">>
      [] v.t = "bool" -> IF v.b THEN <<"t", "r", "u", "e">> ELSE <<"f", "a", "l", "s", "e">>
      [] v.t = "num" -> NumToJson(v)
      [] v.t = "str" -> QuoteJson(v.s)
      [] v.t = "arr" -> <<"[">> \o StringifyItems(v.items, TRUE) \o <<"]">>
      [] v.t = "obj" -> <<"{">> \o StringifyMembers(v.members, TRUE) \o <<"}">>

StringifyMembers(ms, first) ==
    IF ms = <<>> THEN <<>>
    ELSE IF Head(ms).val.t = "undefined" THEN StringifyMembers(Tail(ms), first)
    ELSE (IF first THEN <<>> ELSE <<",">>)
         \o QuoteJson(Head(ms).key) \o <<":">> \o JsonStringify(Head(ms).val)
         \o StringifyMembers(Tail(ms), FALSE)

StringifyItems(items, first) ==
    IF items = <<>> THEN <<>>
    ELSE (IF first THEN <<>> ELSE <<",">>) \o JsonStringify(Head(items))
         \o StringifyItems(Tail(items), FALSE)

\* ------------------------------------------------------------------ JSON.parse
\* A parse result: ok, the value, the position after it.  The grammar is
\* JSON's without \u, \b, \f, \r escapes and without exponents, none of which
\* JSON.stringify writes for the strings and numbers modelled.
ParseFail == [ok |-> FALSE, val |-> JNull, pos |-> 0]
Parsed(val, pos) == [ok |-> TRUE, val |-> val, pos |-> pos]

JsonWhitespace == {" ", "\n", "\t"}

RECURSIVE SkipWs(_, _)
SkipWs(s, p) == IF p <= Len(s) /\ s[p] \in JsonWhitespace THEN SkipWs(s, p + 1) ELSE p

At(s, p, c) == p <= Len(s) /\ s[p] = c

LiteralAt(s, p, lit) ==
    p + Len(lit) - 1 <= Len(s) /\ SubSeq(s, p, p + Len(lit) - 1) = lit

RECURSIVE ParseNat(_, _, _)
ParseNat(s, p, acc) ==
    IF p <= Len(s) /\ s[p] \in DigitChars THEN ParseNat(s, p + 1, acc * 10 + DigitVal(s[p]))
    ELSE [val |-> acc, pos |-> p]

RECURSIVE DigitRun(_, _)
DigitRun(s, p) == IF p <= Len(s) /\ s[p] \in DigitChars THEN <<s[p]>> \o DigitRun(s, p + 1) ELSE <<>>

RECURSIVE StripZeros(_)
StripZeros(ds) == IF ds # <<>> /\ ds[Len(ds)] = "0" THEN StripZeros(SubSeq(ds, 1, Len(ds) - 1)) ELSE ds

ParseNumber(s, p) ==
    LET neg == At(s, p, "-")
        q == IF neg THEN p + 1 ELSE p
    IN IF ~(q <= Len(s) /\ s[q] \in DigitChars) THEN ParseFail
       ELSE LET int == IF s[q] = "0" THEN [val |-> 0, pos |-> q + 1] ELSE ParseNat(s, q, 0)
                hasFrac == At(s, int.pos, ".")
                frac == IF hasFrac THEN DigitRun(s, int.pos + 1) ELSE <<>>
                end == IF hasFrac THEN int.pos + 1 + Len(frac) ELSE int.pos
            IN IF hasFrac /\ frac = <<>> THEN ParseFail
               ELSE IF end <= Len(s) /\ s[end] \in {"e", "E"} THEN ParseFail
               ELSE Parsed(JNum(neg, int.val, StripZeros(frac)), end)

\* The number of backslashes directly before position q, after position p.
BackslashRun(s, q, p) ==
    Max(0, CHOOSE k \in 0..(q - p - 1) :
               /\ \A j \in (q - k)..(q - 1) : s[j] = "\\"
               /\ (k < q - p - 1 => s[q - k - 1] # "\\"))

\* The k-th smallest element of a set of positions.
Nth(set, k) == CHOOSE q \in set : Cardinality({r \in set : r <= q}) = k

\* A string literal at position p: it ends at the first quote that no
\* backslash escapes; a raw control character or an unknown escape fails.
ParseString(s, p) ==
    IF ~At(s, p, "\"") THEN ParseFail
    ELSE LET closers == {q \in (p + 1)..Len(s) : s[q] = "\"" /\ BackslashRun(s, q, p) % 2 = 0}
         IN IF closers = {} THEN ParseFail
            ELSE LET close == Nth(closers, 1)
                     inside == (p + 1)..(close - 1)
                     escapes == {j \in inside : s[j] = "\\" /\ BackslashRun(s, j, p) % 2 = 0}
                     kept == inside \ escapes
                     charAt(j) == IF (j - 1) \in escapes
                                  THEN (IF s[j] = "n" THEN "\n" ELSE IF s[j] = "t" THEN "\t" ELSE s[j])
                                  ELSE s[j]
                 IN IF \/ \E j \in inside : s[j] \in {"\n", "\t"}
                       \/ \E j \in escapes : s[j + 1] \notin {"\"", "\\", "/", "n", "t"}
                    THEN ParseFail
                    ELSE Parsed(JStr([k \in 1..Cardinality(kept) |-> charAt(Nth(kept, k))]), close + 1)

RECURSIVE ParseValue(_, _)
RECURSIVE ParseItems(_, _, _)
RECURSIVE ParseMembers(_, _, _)
ParseValue(s, p0) ==
    LET p == SkipWs(s, p0)
    IN IF p > Len(s) THEN ParseFail
       ELSE IF s[p] = "{"
            THEN IF At(s, SkipWs(s, p + 1), "}") THEN Parsed(JObj(<<>>), SkipWs(s, p + 1) + 1)
                 ELSE ParseMembers(s, p + 1, <<>>)
       ELSE IF s[p] = "["
            THEN IF At(s, SkipWs(s, p + 1), "]") THEN Parsed(JArr(<<>>), SkipWs(s, p + 1) + 1)
                 ELSE ParseItems(s, p + 1, <<>>)
       ELSE IF s[p] = "\"" THEN ParseString(s, p)
       ELSE IF s[p] = "-" \/ s[p] \in DigitChars THEN ParseNumber(s, p)
       ELSE IF LiteralAt(s, p, <<"n", "u", "l", "l">>) THEN Parsed(JNull, p + 4)
       ELSE IF LiteralAt(s, p, <<"t", "r", "u", "e">>) THEN Parsed(JBool(TRUE), p + 4)
       ELSE IF LiteralAt(s, p, <<"f", "a", "l", "s", "e">>) THEN Parsed(JBool(FALSE), p + 5)
       ELSE ParseFail

ParseItems(s, p, acc) ==
    LET v == ParseValue(s, p)
    IN IF ~v.ok THEN ParseFail
       ELSE LET q == SkipWs(s, v.pos)
            IN IF At(s, q, ",") THEN ParseItems(s, q + 1, Append(acc, v.val))
               ELSE IF At(s, q, "]") THEN Parsed(JArr(Append(acc, v.val)), q + 1)
               ELSE ParseFail

ParseMembers(s, p, acc) ==
    LET k == ParseString(s, SkipWs(s, p))
    IN IF ~k.ok THEN ParseFail
       ELSE LET c == SkipWs(s, k.pos)
            IN IF ~At(s, c, ":") THEN ParseFail
               ELSE LET v == ParseValue(s, c + 1)
                    IN IF ~v.ok THEN ParseFail
                       ELSE LET q == SkipWs(s, v.pos)
                                ms == Append(acc, Member(k.val.s, v.val))
                            IN IF At(s, q, ",") THEN ParseMembers(s, q + 1, ms)
                               ELSE IF At(s, q, "}") THEN Parsed(JObj(ms), q + 1)
                               ELSE ParseFail

\* JSON.parse: one value, whitespace around it, nothing after it.
JsonParse(s) ==
    LET v == ParseValue(s, 1)
    IN IF v.ok /\ SkipWs(s, v.pos) = Len(s) + 1 THEN v ELSE ParseFail

\* ------------------------------------------------------------ property access
\* value.key in JavaScript: undefined unless value is an object holding the
\* key (the last of duplicate members is the one JSON.parse keeps).
Get(v, key) ==
    IF v.t = "obj" /\ \E k \in 1..Len(v.members) : v.members[k].key = key
    THEN LET last == CHOOSE k \in 1..Len(v.members) :
                        /\ v.members[k].key = key
                        /\ \A j \in (k + 1)..Len(v.members) : v.members[j].key # key
         IN v.members[last].val
    ELSE JUndefined

IsZero(v) == v.int = 0 /\ v.frac = <<>>

\* !value
Falsy(v) ==
    \/ v.t \in {"null", "undefined"}
    \/ v.t = "bool" /\ ~v.b
    \/ v.t = "num" /\ IsZero(v)
    \/ v.t = "str" /\ v.s = <<>>

\* value === 1
IsOne(v) == v.t = "num" /\ ~v.neg /\ v.int = 1 /\ v.frac = <<>>

\* ---------------------------------------------------------- encode / decode
KeyV == <<"v">>
KeyFp == <<"f", "p">>
KeyI == <<"i">>
KeyN == <<"n">>
KeyW == <<"w">>

Prefix == <<"s", "r", "1", ".">>

\* A ResumePayloadV1 literal: { v, fp, i, n, w } in that order.
ResumePayload(v, fp, i, n, w) ==
    JObj(<<Member(KeyV, v), Member(KeyFp, fp), Member(KeyI, i), Member(KeyN, n), Member(KeyW, w)>>)

encodeResumeHash(payload) == Prefix \o base64UrlEncode(TextEncode(JsonStringify(payload)))

\* What decodeResumeHash throws, by message (the two exceptions of the
\* platform by name), and what it returns.
ErrNotV1 == "Not a speedreader v1 hash."
ErrAtob == "InvalidCharacterError"
ErrJson == "SyntaxError"
ErrVersion == "Unsupported hash version."
ErrFingerprint == "Hash missing fingerprint."
ErrIndex == "Hash missing index."

Thrown(msg) == [ok |-> FALSE, payload |-> JNull, error |-> msg]
Returned(payload) == [ok |-> TRUE, payload |-> payload, error |-> ""]

\* Faulty variant: the fingerprint is checked before the version.
decodeResumeHashFpFirst(hash) ==
    LET trimmed == Trim(hash)
    IN IF ~LiteralAt(trimmed, 1, Prefix) THEN Thrown(ErrNotV1)
       ELSE LET bytes == base64UrlDecode(SubSeq(trimmed, Len(Prefix) + 1, Len(trimmed)))
            IN IF ~bytes.ok THEN Thrown(ErrAtob)
               ELSE LET parsed == JsonParse(TextDecode(bytes.bytes))
                    IN IF ~parsed.ok THEN Thrown(ErrJson)
                       ELSE IF Get(parsed.val, KeyFp).t # "str" \/ Falsy(Get(parsed.val, KeyFp))
                            THEN Thrown(ErrFingerprint)
                       ELSE IF Falsy(parsed.val) \/ ~IsOne(Get(parsed.val, KeyV))
                            THEN Thrown(ErrVersion)
                       ELSE IF Get(parsed.val, KeyI).t # "num" THEN Thrown(ErrIndex)
                       ELSE Returned(parsed.val)

decodeResumeHash(hash) ==
    LET trimmed == Trim(hash)
    IN IF ~LiteralAt(trimmed, 1, Prefix) THEN Thrown(ErrNotV1)
       ELSE LET b64u == SubSeq(trimmed, Len(Prefix) + 1, Len(trimmed))
                bytes == base64UrlDecode(b64u)
            IN IF ~bytes.ok THEN Thrown(ErrAtob)
               ELSE LET json == TextDecode(bytes.bytes)
                        parsed == JsonParse(json)
                    IN IF ~parsed.ok THEN Thrown(ErrJson)
                       ELSE IF Falsy(parsed.val) \/ ~IsOne(Get(parsed.val, KeyV))
                            THEN Thrown(ErrVersion)
                       ELSE IF Get(parsed.val, KeyFp).t # "str" \/ Falsy(Get(parsed.val, KeyFp))
                            THEN Thrown(ErrFingerprint)
                       ELSE IF Get(parsed.val, KeyI).t # "num" THEN Thrown(ErrIndex)
                       ELSE Returned(parsed.val)

\* ------------------------------------------------------------------- files
\* The files a user picks: name and content.
FileXY == [name |-> <<"x", "y">>, text |-> <<"x", " ", "y">>]
FileFive == [name |-> <<"5">>,
             text |-> <<" ", "x", "nbsp", " ", "y", "\n", "\n", "z", " ", "x", "\t", "y", " ">>]
FileBlank == [name |-> <<"b">>, text |-> <<" ", "nbsp", "\n">>]

Files == {FileXY, FileFive, FileBlank}

\* tokenize(text) and sha256Hex(text) of each file, computed once.
FileWords == [f \in Files |-> tokenize(f.text)]
FileFingerprint == [f \in Files |-> sha256Hex(f.text)]

\* What the wpm controls can deliver: a preset, a typed number, or NaN
\* (an emptied number input).
WpmNaN == [nan |-> TRUE, n |-> 0]
WpmNum(n) == [nan |-> FALSE, n |-> n]
WpmInputs == {WpmNaN, WpmNum(5000)}

\* The tokenizers have not been called.
NotSplit == [t |-> "none"]

\* No load has been started.
NoPick == [name |-> <<>>, text |-> <<>>]

\* -------------------------------------------------------------------- state
VARIABLES
    tracks,         \* useState<Track[]>
    wordIndex,      \* useState(0)
    wpm,            \* useState(300)
    isPlaying,      \* useState(false)
    isSeeking,      \* useState(false)
    timerRef,       \* useRef<number | null>: handle of the interval, or NULL
    timers,         \* the browser's live interval timers, each with the
                    \* maxLen and intervalMs its callback closed over
    keyMaxLen,      \* the maxLen the registered keydown listener closed over
    pendingPauses,  \* setTimeout(() => setIsPlaying(false), 0) not yet run
    loads,          \* onFile calls awaiting file.text() / sha256Hex
    status,         \* ResumeHashDialog's useState<string | null>, of the open dialog
    given,          \* codec: the value handed to encodeResumeHash
    token,          \* codec: the token
    decoded,        \* codec: what decodeResumeHash(hash) returned or threw
    state,          \* app.js: the state object (wpm, isPlaying, timerId,
                    \* nextTrackId, tracks)
    els,            \* app.js: the disabled flags of the four playback buttons
    intervals,      \* app.js: the browser's live interval timers
    reads,          \* app.js: change handlers awaiting file.text()
    tsx,            \* app.tsx: the component's hooks, ref, timers and listener
    tsxPauses,      \* app.tsx: setTimeout(() => setIsPlaying(false), 0) not yet run
    tsxLoads,       \* app.tsx: onFile calls awaiting file.text()
    sample,         \* tokenizers: the text handed to them
    parts,          \* tokenizers: what tokenize and splitIntoWords returned
    userGone,       \* environment: the user has stopped acting
    latestPick      \* environment: the file of the load that was started last

engineVars == <<tracks, wordIndex, wpm, isPlaying, isSeeking, timerRef, timers,
                keyMaxLen, pendingPauses, loads, status>>
codecVars == <<given, token, decoded>>
readerVars == <<state, els, intervals, reads>>
tsxVars == <<tsx, tsxPauses, tsxLoads>>
auxVars == <<sample, parts, userGone, latestPick>>
vars == <<tracks, wordIndex, wpm, isPlaying, isSeeking, timerRef, timers,
          keyMaxLen, pendingPauses, loads, status, given, token, decoded,
          state, els, intervals, reads, tsx, tsxPauses, tsxLoads,
          sample, parts, userGone, latestPick>>

\* The component's state as one record (hook state, the ref, the timers).
Cur == [tracks |-> tracks, wordIndex |-> wordIndex, wpm |-> wpm,
        isPlaying |-> isPlaying, isSeeking |-> isSeeking,
        timerRef |-> timerRef, timers |-> timers, keyMaxLen |-> keyMaxLen]

\* ------------------------------------------------------------ derived values
\* tracks.reduce((m, t) => Math.max(m, t.words.length), 0)
RECURSIVE maxLenFrom(_, _)
maxLenFrom(ts, m) == IF ts = <<>> THEN m ELSE maxLenFrom(Tail(ts), Max(m, Len(Head(ts).words)))

maxLen(ts) == maxLenFrom(ts, 0)

\* tracks.some((t) => t.words.length > 0)
anyLoaded(ts) == \E k \in 1..Len(ts) : Len(ts[k].words) > 0

\* Math.round(x / y) for positive x, y: round half up.
RoundDiv(x, y) == (2 * x + y) \div (2 * y)

\* Math.round(60000 / clamp(wpm, 60, 2000))
intervalMs(w) == RoundDiv(60000, clamp(w, 60, 2000))

\* wordIndex < Math.max(0, maxLen - 1)
canAdvance(s) == s.wordIndex < Max(0, maxLen(s.tracks) - 1)

canRewind(s) == s.wordIndex > 0

\* t.words.length ? clamp(wordIndex, 0, Math.max(0, t.words.length - 1)) : 0
effectiveIndex(t, i) == IF Len(t.words) # 0 THEN clamp(i, 0, Max(0, Len(t.words) - 1)) ELSE 0

TrackIds(ts) == {ts[k].id : k \in 1..Len(ts)}

\* id(): a fresh identifier.  Date.now() plus a random suffix is taken to
\* collide with no identifier still in use (by a track or by a load in flight).
IdSpace == 1..(MaxTracks + MaxLoads + 1)
id(used) == CHOOSE n \in IdSpace : n \notin used /\ \A m \in IdSpace : m < n => m \in used

UsedIds == TrackIds(tracks) \cup {l.trackId : l \in loads}

EmptyTrack(newId, n) ==
    [id |-> newId, name |-> <<"T", "r", "a", "c", "k", " ">> \o NatToString(n), rawText |-> <<>>, words |-> <<>>,
     fingerprint |-> undefined]

\* ------------------------------------------------------------------ effects
\* The dependency arrays of the effects, as rendered from state s.
TimerDeps(s) == <<s.isPlaying, s.isSeeking, intervalMs(s.wpm), maxLen(s.tracks)>>
LoadedDeps(s) == <<s.isPlaying, anyLoaded(s.tracks)>>

\* Faulty variant: the interval is never cleared.
ClearCurrentOff(a) == a

\* window.clearInterval(timerRef.current) when it is set
ClearCurrent(a) ==
    IF a.timerRef # NULL
    THEN [a EXCEPT !.timers = {t \in a.timers : t.id # a.timerRef}]
    ELSE a

\* The cleanup the timer effect returned: clear the interval, drop the handle.
TimerCleanup(a) == [ClearCurrent(a) EXCEPT !.timerRef = NULL]

\* window.setInterval: a handle no live timer has.
NewHandle(ts) == CHOOSE h \in 1..(Cardinality(ts) + 1) : \A t \in ts : t.id # h

\* A timer records, besides its period ms and the maxLen its callback closed
\* over, the pace of the render whose effect created it.
\* Faulty variant: the body does not look at isSeeking.
TimerBodyNoSeekGuard(r, a) ==
    IF ~r.isPlaying THEN a
    ELSE Only({[b EXCEPT !.timers = b.timers \cup
                             {[id |-> NewHandle(b.timers), maxLen |-> maxLen(r.tracks),
                               ms |-> intervalMs(r.wpm), wpm |-> r.wpm]},
                         !.timerRef = NewHandle(b.timers)] : b \in {ClearCurrent(a)}})

\* The timer effect's body, for render r.
TimerBody(r, a) ==
    IF ~r.isPlaying \/ r.isSeeking THEN a
    ELSE Only({[b EXCEPT !.timers = b.timers \cup
                             {[id |-> NewHandle(b.timers), maxLen |-> maxLen(r.tracks),
                               ms |-> intervalMs(r.wpm), wpm |-> r.wpm]},
                         !.timerRef = NewHandle(b.timers)] : b \in {ClearCurrent(a)}})

\* Faulty variant: the effect returns no cleanup.
TimerEffectNoCleanup(prev, r, a) ==
    IF TimerDeps(prev) = TimerDeps(r) THEN a ELSE TimerBody(r, a)

\* The playback timer effect: prev is the render it last ran for, r this render.
TimerEffect(prev, r, a) ==
    IF TimerDeps(prev) = TimerDeps(r) THEN a
    ELSE Only({TimerBody(r, cleaned) :
               cleaned \in {IF prev.isPlaying /\ ~prev.isSeeking THEN TimerCleanup(a) ELSE a}})

\* Faulty variant: the cursor returns to 0 whenever maxLen changes.
ClampEffectReset(prev, r, a) ==
    IF maxLen(prev.tracks) = maxLen(r.tracks) THEN a ELSE [a EXCEPT !.wordIndex = 0]

\* Faulty variant: no clamp effect.
ClampEffectOff(prev, r, a) == a

\* Clamp the global index if track set/length changes.
ClampEffect(prev, r, a) ==
    IF maxLen(prev.tracks) = maxLen(r.tracks) THEN a
    ELSE [a EXCEPT !.wordIndex =
             IF maxLen(r.tracks) = 0 THEN 0
             ELSE Min(a.wordIndex, Max(0, maxLen(r.tracks) - 1))]

\* The keyboard effect re-registers onKeyDown when maxLen changes.
KeyboardEffect(prev, r, a) ==
    IF maxLen(prev.tracks) = maxLen(r.tracks) THEN a
    ELSE [a EXCEPT !.keyMaxLen = maxLen(r.tracks)]

\* Faulty variant: no anyLoaded effect.
AnyLoadedEffectOff(prev, r, a) == a

\* Faulty variant: the dependency array names isPlaying only.
AnyLoadedEffectPlayingDep(prev, r, a) ==
    IF prev.isPlaying = r.isPlaying THEN a
    ELSE IF r.isPlaying /\ ~anyLoaded(r.tracks) THEN [a EXCEPT !.isPlaying = FALSE] ELSE a

\* if (isPlaying && !anyLoaded) setIsPlaying(false)
AnyLoadedEffect(prev, r, a) ==
    IF LoadedDeps(prev) = LoadedDeps(r) THEN a
    ELSE IF r.isPlaying /\ ~anyLoaded(r.tracks) THEN [a EXCEPT !.isPlaying = FALSE] ELSE a

\* The effects of one render, in the order the component declares them.
EffectPass(prev, r) ==
    Only({AnyLoadedEffect(prev, r, a3) :
          a3 \in {KeyboardEffect(prev, r, a2) :
                  a2 \in {ClampEffect(prev, r, a1) :
                          a1 \in {TimerEffect(prev, r, r)}}}})

HookState(s) == <<s.tracks, s.wordIndex, s.wpm, s.isPlaying, s.isSeeking>>

\* Render r (the render before it was prev) and run its effects; an effect
\* that sets state causes another render, until none does.
RECURSIVE Flush(_, _)
Flush(prev, r) ==
    Only({IF HookState(a) = HookState(r) THEN a ELSE Flush(r, a) : a \in {EffectPass(prev, r)}})

\* ----------------------------------------------------------------- handlers
addTrack(s) ==
    [s EXCEPT !.tracks = Append(s.tracks, EmptyTrack(id(UsedIds), Len(s.tracks) + 1))]

RECURSIVE FilterOut(_, _)
FilterOut(ts, trackId) ==
    IF ts = <<>> THEN <<>>
    ELSE IF Head(ts).id # trackId THEN <<Head(ts)>> \o FilterOut(Tail(ts), trackId)
         ELSE FilterOut(Tail(ts), trackId)

\* Faulty variant: the last track can be removed.
removeTrackToNone(s, trackId) == [s EXCEPT !.tracks = FilterOut(s.tracks, trackId)]

removeTrack(s, trackId) ==
    LET next == FilterOut(s.tracks, trackId)
    IN [s EXCEPT !.tracks = IF Len(next) # 0 THEN next ELSE <<EmptyTrack(id(UsedIds), 1)>>]

\* Track ids are opaque and only ever compared for equality, so states are
\* kept up to renaming: after a removal the tracks are renumbered 1, 2, ... in
\* order, and a load in flight for a track that is gone carries Gone.
Gone == 0

Renumber(s) == [s EXCEPT !.tracks = [k \in 1..Len(s.tracks) |-> [s.tracks[k] EXCEPT !.id = k]]]

RenumberLoads(ls, ts) ==
    {[l EXCEPT !.trackId = IF \E k \in 1..Len(ts) : ts[k].id = l.trackId
                           THEN CHOOSE k \in 1..Len(ts) : ts[k].id = l.trackId
                           ELSE Gone] : l \in ls}

\* Faulty variant: the words are replaced, the fingerprint is left as it was.
LoadedTrackWordsOnly(t, file) ==
    [t EXCEPT !.name = file.name, !.rawText = file.text, !.words = FileWords[file]]

\* What onFile writes once file.text() and sha256Hex(text) have resolved.
LoadedTrack(t, file) ==
    [t EXCEPT !.name = file.name, !.rawText = file.text,
              !.words = FileWords[file], !.fingerprint = FileFingerprint[file]]

\* Faulty variant: the cursor is left where it was.
onFileWriteKeepsCursor(s, trackId, file) ==
    [s EXCEPT !.tracks = [k \in 1..Len(s.tracks) |->
                             IF s.tracks[k].id = trackId THEN LoadedTrack(s.tracks[k], file)
                             ELSE s.tracks[k]]]

onFileWrite(s, trackId, file) ==
    [s EXCEPT !.tracks = [k \in 1..Len(s.tracks) |->
                             IF s.tracks[k].id = trackId THEN LoadedTrack(s.tracks[k], file)
                             ELSE s.tracks[k]],
              !.wordIndex = 0]

\* nextWord, with the maxLen its closure holds.
nextWord(s, closedMaxLen) ==
    [s EXCEPT !.wordIndex = IF closedMaxLen = 0 THEN 0
                            ELSE Min(s.wordIndex + 1, Max(0, closedMaxLen - 1))]

prevWord(s) == [s EXCEPT !.wordIndex = Max(0, s.wordIndex - 1)]

\* Faulty variant: the callback wraps around at the end.
tickNextWrap(i, closedMaxLen) == IF closedMaxLen # 0 THEN (i + 1) % closedMaxLen ELSE 0

\* The interval callback of timer t: the index it sets.
tickNext(i, closedMaxLen) ==
    IF closedMaxLen # 0 THEN Min(i + 1, Max(0, closedMaxLen - 1)) ELSE 0

\* Auto-stop at end: whether the callback schedules setIsPlaying(false).
tickStops(i, closedMaxLen) ==
    closedMaxLen # 0 /\ tickNext(i, closedMaxLen) >= closedMaxLen - 1

\* clamp(parseInt(value, 10) || 300, 60, 2000); valueAsNumber || 300
\* Faulty variant: the typed pace is stored as it is.
wpmFromInputRaw(v) == IF v.nan \/ v.n = 0 THEN 300 ELSE v.n

wpmFromInput(v) == clamp(IF v.nan \/ v.n = 0 THEN 300 ELSE v.n, 60, 2000)

\* The slider is disabled={!anyLoaded || maxLen <= 1}.
sliderEnabled(s) == anyLoaded(s.tracks) /\ maxLen(s.tracks) > 1

\* ------------------------------------------------------------ resume dialog
\* status: null, a message, or the template `Resumed to word index ${n}.`
StatusNone == [msg |-> "", n |-> 0]
StatusOf(msg) == [msg |-> msg, n |-> 0]

MsgLoadFirst == "Load a .txt file for this track first."
MsgMismatch == "This hash does not match the currently loaded text in this track."
MsgResumed == "Resumed to word index "

StatusResumed(n) == [msg |-> MsgResumed, n |-> n]

\* Faulty variant: rounds away from zero.
TruncAway(v) ==
    IF v.frac = <<>> THEN (IF v.neg THEN 0 - v.int ELSE v.int)
    ELSE (IF v.neg THEN 0 - v.int - 1 ELSE v.int + 1)

\* Math.trunc of a parsed number.
Trunc(v) == IF v.neg THEN 0 - v.int ELSE v.int

\* Boolean(track.fingerprint && track.words.length)
canHash(t) == t.fingerprint # undefined /\ Len(t.words) # 0

\* Faulty variant: the token carries the 1-based position.
currentHashOneBased(t, i) ==
    IF t.fingerprint = undefined \/ Len(t.words) = 0 THEN <<>>
    ELSE encodeResumeHash(ResumePayload(
             JInt(1), JStr(t.fingerprint), JInt(i + 1),
             IF t.name # <<>> THEN JStr(t.name) ELSE JUndefined, JUndefined))

\* The token the dialog shows for track t at effective index i.
currentHash(t, i) ==
    IF t.fingerprint = undefined \/ Len(t.words) = 0 THEN <<>>
    ELSE LET currentWord == IF i + 1 <= Len(t.words) THEN t.words[i + 1] ELSE <<>>
         IN encodeResumeHash(ResumePayload(
                JInt(1), JStr(t.fingerprint), JInt(i),
                IF t.name # <<>> THEN JStr(t.name) ELSE JUndefined,
                IF currentWord # <<>> THEN JStr(currentWord) ELSE JUndefined))

\* A token written by hand or by another tool: the prefix and a body.
TokenOf(body) == Prefix \o base64UrlEncode(TextEncode(body))

\* What a user pastes into the dialog: tokens copied from it earlier, tokens
\* whose index lies beyond the text, and tokens of other origin.
TrackOf(file) == LoadedTrack(EmptyTrack(1, 1), file)
TokenXY == currentHash(TrackOf(FileXY), 1)
TokenFive == currentHash(TrackOf(FileFive), 2)
TokenBeyond ==
    encodeResumeHash(ResumePayload(JInt(1), JStr(FileFingerprint[FileFive]), JInt(99),
                                   JUndefined, JUndefined))
TokenV2 ==
    encodeResumeHash(ResumePayload(JInt(2), JStr(FileFingerprint[FileXY]), JInt(1),
                                   JUndefined, JUndefined))
\* Tokens with an index that is no position: -1.5 for the text of FileXY,
\* 2.7 for the text of FileFive.
TokenNegative ==
    encodeResumeHash(ResumePayload(JInt(1), JStr(FileFingerprint[FileXY]),
                                   JNum(TRUE, 1, <<"5">>), JUndefined, JUndefined))
TokenFraction ==
    encodeResumeHash(ResumePayload(JInt(1), JStr(FileFingerprint[FileFive]),
                                   JNum(FALSE, 2, <<"7">>), JUndefined, JUndefined))
TokenNull == TokenOf(<<"n", "u", "l", "l">>)
TokenCut == SubSeq(TokenXY, 1, Len(TokenXY) - 4)
TokenOther == <<"s", "r", "2", ".", "e", "3", "0">>

PasteValues == {TokenXY, TokenBeyond, TokenNegative, TokenFraction, TokenV2, TokenOther}

\* decodeResumeHash(pasteValue), computed once for each paste value.
DecodeTable == {[value |-> p, decoded |-> decodeResumeHash(p)] : p \in PasteValues}
Decoded(pasteValue) ==
    IF \E e \in DecodeTable : e.value = pasteValue
    THEN (CHOOSE e \in DecodeTable : e.value = pasteValue).decoded
    ELSE decodeResumeHash(pasteValue)

\* Faulty variant: the index is applied before the fingerprints are compared.
applyPastedEager(s, t, pasteValue) ==
    IF t.fingerprint = undefined THEN [s |-> s, status |-> StatusOf(MsgLoadFirst)]
    ELSE Only({
        IF ~d.ok THEN [s |-> s, status |-> StatusOf(d.error)]
        ELSE Only({IF Get(d.payload, KeyFp).s # t.fingerprint
                   THEN [s |-> [s EXCEPT !.wordIndex = clamped], status |-> StatusOf(MsgMismatch)]
                   ELSE [s |-> [s EXCEPT !.wordIndex = clamped],
                         status |-> StatusResumed(clamped + 1)] :
                   clamped \in {clamp(Trunc(Get(d.payload, KeyI)), 0,
                                      Max(0, maxLen(s.tracks) - 1))}}) :
        d \in {Decoded(pasteValue)}})

\* applyPasted on the dialog of track t, rendered from s: the component
\* state it leaves and the status it sets.
applyPasted(s, t, pasteValue) ==
    IF t.fingerprint = undefined THEN [s |-> s, status |-> StatusOf(MsgLoadFirst)]
    ELSE Only({
        IF ~d.ok THEN [s |-> s, status |-> StatusOf(d.error)]
        ELSE IF Get(d.payload, KeyFp).s # t.fingerprint
             THEN [s |-> s, status |-> StatusOf(MsgMismatch)]
        ELSE Only({[s |-> [s EXCEPT !.wordIndex = clamped],
                    status |-> StatusResumed(clamped + 1)] :
                   clamped \in {clamp(Trunc(Get(d.payload, KeyI)), 0,
                                      Max(0, maxLen(s.tracks) - 1))}}) :
        d \in {Decoded(pasteValue)}})

\* ------------------------------------------------------------- codec inputs
\* Payloads handed to encodeResumeHash: ResumePayloadV1 values, records of
\* another version or with fields missing, and JSON values that are no record.
Fingerprints ==
    {<<"a", "b", "c", "1", "2", "3">>, FileFingerprint[FileXY], <<"?", ">", "~">>,
     <<"\"", "\\", "nbsp">>}
Indexes == {JInt(0), JInt(1), JInt(42), JInt(1000)}
Names == {JUndefined, JStr(<<"x", "y">>), JStr(<<"a", "\n", "\"", "b">>)}
Words == {JUndefined, JStr(<<"y">>), JStr(<<"\\", "n", "nbsp", "?">>)}

ValidPayloads ==
    {ResumePayload(JInt(1), JStr(fp), i, n, w) :
        fp \in Fingerprints, i \in Indexes, n \in Names, w \in Words}

OtherVersions == {JInt(2), JInt(0), JInt(-1), JStr(<<"1">>), JBool(TRUE), JNull,
                  JNum(FALSE, 1, <<"5">>), JArr(<<JInt(1)>>)}

OtherPayloads ==
    {ResumePayload(v, fp, i, JUndefined, JUndefined) :
        v \in OtherVersions \cup {JInt(1)},
        fp \in {JStr(<<"a", "b", "c", "1", "2", "3">>), JStr(<<>>), JInt(7), JUndefined},
        i \in {JInt(42), JStr(<<"4", "2">>), JNum(TRUE, 1, <<"5">>), JUndefined}}

NonRecords ==
    {JNull, JInt(7), JInt(0), JStr(<<"s">>), JStr(<<>>), JBool(FALSE), JArr(<<JInt(1), JInt(2)>>),
     JArr(<<>>), JObj(<<>>),
     JObj(<<Member(KeyFp, JStr(<<"a", "b", "c">>)), Member(KeyI, JInt(1))>>)}

Payloads == ValidPayloads \cup OtherPayloads \cup NonRecords

\* Tokens that are not the encoding of any JSON value.
RawTokens ==
    {TokenCut, TokenOther, <<"s", "r", "1", ".", "*", "a", "a", "a">>, <<"s", "r", "1", ".", "a">>,
     <<"s", "r", "1", ".">>, <<>>,
     <<" ", "\n">> \o TokenXY \o <<"nbsp", "\t">>,
     TokenOf(<<"{", "\"", "v", "\"", ":", "1", ".", "0", ",", "\"", "f", "p", "\"", ":", "\"", "a",
               "\"", ",", "\"", "i", "\"", ":", "2", "}">>),
     TokenOf(<<"{", "\"", "v", "\"", ":", "2", ",", "\"", "v", "\"", ":", "1", ",", "\"", "f", "p",
               "\"", ":", "\"", "a", "\"", ",", "\"", "i", "\"", ":", "2", "}">>)}

\* decoded before decodeResumeHash has run.
NotDecoded == [ok |-> FALSE, payload |-> JNull, error |-> ""]

\* ------------------------------------------------------------------ actions
\* Commit the handler's result s: render, run the effects, store.
Commit(s) ==
    \E a \in {Flush(c, r) : c \in {Cur}, r \in {s}} :
       /\ tracks' = a.tracks
       /\ wordIndex' = a.wordIndex
       /\ wpm' = a.wpm
       /\ isPlaying' = a.isPlaying
       /\ isSeeking' = a.isSeeking
       /\ timerRef' = a.timerRef
       /\ timers' = a.timers
       /\ keyMaxLen' = a.keyMaxLen

\* The resume dialog is modal: a control outside it is clicked only once the
\* dialog has closed, and onClose runs setStatus(null).
DialogClosed == status' = StatusNone

\* part_001 as the page loads.
EngineInit ==
    /\ tracks = <<EmptyTrack(1, 1)>>
    /\ wordIndex = 0
    /\ wpm = 300
    /\ isPlaying = FALSE
    /\ isSeeking = FALSE
    /\ timerRef = NULL
    /\ timers = {}
    /\ keyMaxLen = 0
    /\ pendingPauses = 0
    /\ loads = {}
    /\ status = StatusNone

CodecInit ==
    /\ given = JUndefined
    /\ token = <<>>
    /\ decoded = NotDecoded

\* app.js after init().
ReaderInit ==
    /\ state = [wpm |-> 300, isPlaying |-> FALSE, timerId |-> NULL, nextTrackId |-> 2,
                tracks |-> <<[id |-> 1, name |-> <<"T", "r", "a", "c", "k", " ", "1">>,
                              fileName |-> undefined, words |-> <<>>, idx |-> 0,
                              loaded |-> FALSE]>>]
    /\ els = [playPauseBtn |-> TRUE, nextBtn |-> TRUE, prevBtn |-> TRUE, resetBtn |-> TRUE]
    /\ intervals = {}
    /\ reads = {}

\* app.tsx as the page loads.
TsxInit ==
    /\ tsx = [tracks |-> <<EmptyTrack(1, 1)>>, wordIndex |-> 0, wpm |-> 300,
              isPlaying |-> FALSE, isSeeking |-> FALSE, timerRef |-> NULL, timers |-> {},
              keyMaxLen |-> 0]
    /\ tsxPauses = 0
    /\ tsxLoads = {}

AuxInit ==
    /\ sample = <<>>
    /\ parts = NotSplit
    /\ userGone = FALSE
    /\ latestPick = NoPick

Init ==
    /\ EngineInit
    /\ CodecInit
    /\ ReaderInit
    /\ TsxInit
    /\ AuxInit

AddTrack ==
    /\ Len(tracks) < MaxTracks
    /\ Commit(addTrack(Cur))
    /\ DialogClosed
    /\ UNCHANGED <<pendingPauses, loads, codecVars, readerVars, tsxVars, auxVars>>

RemoveTrack ==
    \E k \in 1..Len(tracks) :
        \E r \in {removeTrack(Cur, tracks[k].id)} :
            /\ Commit(Renumber(r))
            /\ loads' = RenumberLoads(loads, r.tracks)
            /\ DialogClosed
            /\ UNCHANGED <<pendingPauses, codecVars, readerVars, tsxVars, auxVars>>

\* onFile up to its first await.
StartLoad ==
    \E k \in 1..Len(tracks), file \in Files :
        /\ Cardinality(loads) < MaxLoads
        /\ loads' = loads \cup {[trackId |-> tracks[k].id, file |-> file]}
        /\ DialogClosed
        /\ UNCHANGED <<tracks, wordIndex, wpm, isPlaying, isSeeking, timerRef, timers,
                       keyMaxLen, pendingPauses, codecVars, readerVars, tsxVars, auxVars>>

\* onFile after its awaits: setTracks, setWordIndex(0).
FinishLoad ==
    \E l \in loads :
        /\ loads' = loads \ {l}
        /\ Commit(onFileWrite(Cur, l.trackId, l.file))
        /\ UNCHANGED <<pendingPauses, status, codecVars, readerVars, tsxVars, auxVars>>

\* The Next button (disabled={!anyLoaded || !canAdvance}).
ClickNext ==
    /\ anyLoaded(tracks) /\ canAdvance(Cur)
    /\ Commit(nextWord(Cur, maxLen(tracks)))
    /\ DialogClosed
    /\ UNCHANGED <<pendingPauses, loads, codecVars, readerVars, tsxVars, auxVars>>

\* ArrowRight, through the registered keydown listener.
KeyArrowRight ==
    /\ Commit(nextWord(Cur, keyMaxLen))
    /\ UNCHANGED <<pendingPauses, loads, status, codecVars, readerVars, tsxVars, auxVars>>

\* The Prev button (disabled={!anyLoaded || !canRewind}).
ClickPrev ==
    /\ anyLoaded(tracks) /\ canRewind(Cur)
    /\ Commit(prevWord(Cur))
    /\ DialogClosed
    /\ UNCHANGED <<pendingPauses, loads, codecVars, readerVars, tsxVars, auxVars>>

\* ArrowLeft, through the keydown listener.
KeyArrowLeft ==
    /\ Commit(prevWord(Cur))
    /\ UNCHANGED <<pendingPauses, loads, status, codecVars, readerVars, tsxVars, auxVars>>

\* The Restart button (disabled={!anyLoaded || wordIndex === 0}).
Restart ==
    /\ anyLoaded(tracks) /\ wordIndex # 0
    /\ Commit([Cur EXCEPT !.wordIndex = 0])
    /\ DialogClosed
    /\ UNCHANGED <<pendingPauses, loads, codecVars, readerVars, tsxVars, auxVars>>

\* The Play/Pause button (disabled={!anyLoaded}).
ClickPlayPause ==
    /\ anyLoaded(tracks)
    /\ Commit([Cur EXCEPT !.isPlaying = ~isPlaying])
    /\ DialogClosed
    /\ UNCHANGED <<pendingPauses, loads, codecVars, readerVars, tsxVars, auxVars>>

\* Space, through the keydown listener: setIsPlaying((p) => !p).
KeySpace ==
    /\ Commit([Cur EXCEPT !.isPlaying = ~isPlaying])
    /\ UNCHANGED <<pendingPauses, loads, status, codecVars, readerVars, tsxVars, auxVars>>

\* The preset select and the number input.
SetWpm ==
    \E v \in WpmInputs :
        /\ Commit([Cur EXCEPT !.wpm = wpmFromInput(v)])
        /\ DialogClosed
        /\ UNCHANGED <<pendingPauses, loads, codecVars, readerVars, tsxVars, auxVars>>

\* onPointerDown on the progress slider.
SeekStart ==
    /\ sliderEnabled(Cur)
    /\ Commit([Cur EXCEPT !.isSeeking = TRUE])
    /\ DialogClosed
    /\ UNCHANGED <<pendingPauses, loads, codecVars, readerVars, tsxVars, auxVars>>

\* onPointerUp / onPointerCancel.
SeekEnd ==
    /\ isSeeking
    /\ Commit([Cur EXCEPT !.isSeeking = FALSE])
    /\ UNCHANGED <<pendingPauses, loads, status, codecVars, readerVars, tsxVars, auxVars>>

\* onInput of the slider: a value of its range [0, max(0, maxLen - 1)].
SeekInput ==
    \E v \in 0..Max(0, maxLen(tracks) - 1) :
        /\ sliderEnabled(Cur)
        /\ Commit([Cur EXCEPT !.wordIndex = v])
        /\ DialogClosed
        /\ UNCHANGED <<pendingPauses, loads, codecVars, readerVars, tsxVars, auxVars>>

\* The dialog of a track is opened (setStatus(null), setPasteValue('')), a
\* value is pasted and Apply (disabled={!pasteValue.trim()}) is clicked.  The
\* dialog opens only on a track with a fingerprint; a load completing while
\* it is open can replace the fingerprint and the words, never unset it.
ApplyPasted ==
    \E k \in 1..Len(tracks), p \in PasteValues :
        /\ tracks[k].fingerprint # undefined
        /\ Trim(p) # <<>>
        /\ \E o \in {applyPasted(Cur, tracks[k], p)} :
              /\ Commit(o.s)
              /\ status' = o.status
        /\ UNCHANGED <<pendingPauses, loads, codecVars, readerVars, tsxVars, auxVars>>

\* The dialog is closed (Close, Escape): onClose={() => setStatus(null)}.
CloseDialog ==
    /\ status # StatusNone
    /\ status' = StatusNone
    /\ UNCHANGED <<tracks, wordIndex, wpm, isPlaying, isSeeking, timerRef, timers,
                   keyMaxLen, pendingPauses, loads, codecVars, readerVars, tsxVars, auxVars>>

\* The callback of a live interval timer.  A zero-delay timeout set by an
\* earlier callback runs before any later interval callback (timers of one
\* window with a smaller delay, started earlier, run first).
Tick ==
    \E t \in timers :
        /\ pendingPauses = 0
        /\ pendingPauses' = IF tickStops(wordIndex, t.maxLen) THEN pendingPauses + 1
                            ELSE pendingPauses
        /\ Commit([Cur EXCEPT !.wordIndex = tickNext(wordIndex, t.maxLen)])
        /\ UNCHANGED <<loads, status, codecVars, readerVars, tsxVars, auxVars>>

\* window.setTimeout(() => setIsPlaying(false), 0)
DeferredPause ==
    /\ pendingPauses > 0
    /\ pendingPauses' = pendingPauses - 1
    /\ Commit([Cur EXCEPT !.isPlaying = FALSE])
    /\ UNCHANGED <<loads, status, codecVars, readerVars, tsxVars, auxVars>>

Next ==
    \/ AddTrack
    \/ RemoveTrack
    \/ StartLoad
    \/ FinishLoad
    \/ ClickNext
    \/ KeyArrowRight
    \/ ClickPrev
    \/ KeyArrowLeft
    \/ Restart
    \/ ClickPlayPause
    \/ KeySpace
    \/ SetWpm
    \/ SeekStart
    \/ SeekEnd
    \/ SeekInput
    \/ ApplyPasted
    \/ CloseDialog
    \/ Tick
    \/ DeferredPause

Spec == Init /\ [][Next]_vars

\* The playback engine under pace changes alone: one track, files loaded into
\* it, play and pause, the timer, and the number input typed with paces whose
\* rounded periods coincide (1999 and 2000 both give 30 ms) or differ (400),
\* with an empty field (NaN) and with paces outside the bound (10, 5000).
PaceInputs == {WpmNaN, WpmNum(10), WpmNum(400), WpmNum(1999), WpmNum(2000), WpmNum(5000)}

SetPace ==
    \E v \in PaceInputs :
        /\ Commit([Cur EXCEPT !.wpm = wpmFromInput(v)])
        /\ DialogClosed
        /\ UNCHANGED <<pendingPauses, loads, codecVars, readerVars, tsxVars, auxVars>>

NextPace ==
    \/ StartLoad
    \/ FinishLoad
    \/ ClickPlayPause
    \/ SetPace
    \/ Tick
    \/ DeferredPause

SpecPace == Init /\ [][NextPace]_vars

\* ------------------------------------------------------------- codec actions
\* encodeResumeHash(p)
Encode ==
    \E p \in Payloads :
        /\ token = <<>> /\ decoded = NotDecoded
        /\ given' = p
        /\ token' = encodeResumeHash(p)
        /\ decoded' = NotDecoded
        /\ UNCHANGED engineVars
        /\ UNCHANGED readerVars
        /\ UNCHANGED tsxVars
        /\ UNCHANGED auxVars

\* A token that was not produced by encodeResumeHash.
TakeRaw ==
    \E h \in RawTokens :
        /\ token = <<>> /\ decoded = NotDecoded
        /\ given' = JUndefined
        /\ token' = h
        /\ decoded' = NotDecoded
        /\ UNCHANGED engineVars
        /\ UNCHANGED readerVars
        /\ UNCHANGED tsxVars
        /\ UNCHANGED auxVars

\* decodeResumeHash(token)
Decode ==
    /\ decoded = NotDecoded
    /\ decoded' = decodeResumeHash(token)
    /\ UNCHANGED <<given, token>>
    /\ UNCHANGED engineVars
    /\ UNCHANGED readerVars
    /\ UNCHANGED tsxVars
    /\ UNCHANGED auxVars

NextCodec ==
    \/ Encode
    \/ TakeRaw
    \/ Decode

SpecCodec == Init /\ [][NextCodec]_vars

\* ======================================================== src/app.js reader
\* The dependency-free reader keeps one state object; every track has its
\* own idx.  W is the state together with the DOM and the timers it drives.
W == [state |-> state, els |-> els, intervals |-> intervals]

\* Math.min(max, Math.max(min, n))
clampJs(n, min, max) == Min(max, Max(min, n))

\* Number.parseInt(String(value), 10), or the fallback when that is NaN.
safeInt(value, fallback) == IF value.nan THEN fallback ELSE value.n

\* String(text).match(/\S+/g) || []: the maximal runs of non-whitespace.
tokenizeJs(text) == FilterNonEmpty(SplitWhitespace(text))

ReaderWords == {[file |-> f, words |-> tokenizeJs(f.text)] : f \in Files}
WordsOf(f) == (CHOOSE e \in ReaderWords : e.file = f).words

\* The largest id createTrack hands out.
MaxTrackId == 3

createTrack(n) ==
    [id |-> n, name |-> <<"T", "r", "a", "c", "k", " ">> \o NatToString(n),
     fileName |-> undefined, words |-> <<>>, idx |-> 0, loaded |-> FALSE]

getAnyLoadedTrack(st) == \E k \in 1..Len(st.tracks) : st.tracks[k].loaded

getAllAtEnd(st) ==
    \A k \in 1..Len(st.tracks) :
        st.tracks[k].loaded => st.tracks[k].idx >= Len(st.tracks[k].words) - 1

getAllAtStart(st) ==
    \A k \in 1..Len(st.tracks) : st.tracks[k].loaded => st.tracks[k].idx <= 0

msPerWord(st) == RoundDiv(60000, st.wpm)

updateControlsEnabledState(w) ==
    [w EXCEPT !.els =
        IF ~getAnyLoadedTrack(w.state)
        THEN [playPauseBtn |-> TRUE, nextBtn |-> TRUE, prevBtn |-> TRUE, resetBtn |-> TRUE]
        ELSE [playPauseBtn |-> FALSE, nextBtn |-> getAllAtEnd(w.state),
              prevBtn |-> getAllAtStart(w.state), resetBtn |-> FALSE]]

stopTimer(w0) ==
    Only({IF w.state.timerId # NULL
          THEN [w EXCEPT !.intervals = {t \in w.intervals : t.id # w.state.timerId},
                         !.state.timerId = NULL]
          ELSE w : w \in {w0}})

restartTimer(w0) ==
    Only({[w EXCEPT !.intervals = w.intervals \cup
                        {[id |-> NewHandle(w.intervals), ms |-> msPerWord(w.state)]},
                    !.state.timerId = NewHandle(w.intervals)] : w \in {stopTimer(w0)}})

pause(w0) ==
    Only({IF ~w.state.isPlaying THEN w
          ELSE updateControlsEnabledState(stopTimer([w EXCEPT !.state.isPlaying = FALSE])) :
          w \in {w0}})

play(w0) ==
    Only({IF ~getAnyLoadedTrack(w.state) THEN w
          ELSE IF w.state.isPlaying THEN w
          ELSE updateControlsEnabledState(restartTimer([w EXCEPT !.state.isPlaying = TRUE])) :
          w \in {w0}})

togglePlayPause(w0) == Only({IF w.state.isPlaying THEN pause(w) ELSE play(w) : w \in {w0}})

ensurePlaybackStateIsValid(w0) ==
    Only({updateControlsEnabledState(
              IF ~getAnyLoadedTrack(w.state) /\ w.state.isPlaying THEN pause(w) ELSE w) :
          w \in {w0}})

\* render() leaves of the model only the button flags.
render(w) == updateControlsEnabledState(w)

addTrackJs(w0) ==
    Only({render([w EXCEPT !.state.tracks = Append(w.state.tracks, createTrack(w.state.nextTrackId)),
                           !.state.nextTrackId = w.state.nextTrackId + 1]) : w \in {w0}})

SpliceOut(ts, i) == [k \in 1..(Len(ts) - 1) |-> IF k < i THEN ts[k] ELSE ts[k + 1]]

removeTrackJs(w0, trackId) ==
    Only({ensurePlaybackStateIsValid(render(
              IF Len(spliced.state.tracks) = 0 THEN addTrackJs(spliced) ELSE spliced)) :
          spliced \in {IF \E k \in 1..Len(w0.state.tracks) : w0.state.tracks[k].id = trackId
                       THEN [w0 EXCEPT !.state.tracks =
                                SpliceOut(w0.state.tracks,
                                          CHOOSE k \in 1..Len(w0.state.tracks) :
                                              /\ w0.state.tracks[k].id = trackId
                                              /\ \A j \in 1..(k - 1) : w0.state.tracks[j].id # trackId)]
                       ELSE w0}})

setTrackWords(w0, trackId, fileName, words) ==
    Only({IF ~\E k \in 1..Len(w.state.tracks) : w.state.tracks[k].id = trackId THEN w
          ELSE ensurePlaybackStateIsValid(render(
                   [w EXCEPT !.state.tracks =
                       [k \in 1..Len(w.state.tracks) |->
                           IF w.state.tracks[k].id = trackId
                           THEN [w.state.tracks[k] EXCEPT !.fileName = fileName, !.words = words,
                                                          !.idx = 0, !.loaded = Len(words) > 0]
                           ELSE w.state.tracks[k]]])) :
          w \in {w0}})

setWpm(w0, nextWpm) ==
    Only({IF w.state.isPlaying THEN restartTimer(w) ELSE w :
          w \in {[w0 EXCEPT !.state.wpm = clampJs(safeInt(nextWpm, w0.state.wpm), 50, 1500)]}})

\* Faulty variant: only the first loaded track is moved.
advanceFirstOnly(w0, step) ==
    Only({IF ~getAnyLoadedTrack(w.state) THEN w
          ELSE Only({IF moved.state.isPlaying /\ getAllAtEnd(moved.state) THEN pause(moved) ELSE moved :
                     moved \in {updateControlsEnabledState(
                         [w EXCEPT !.state.tracks =
                             [k \in 1..Len(w.state.tracks) |->
                                 IF w.state.tracks[k].loaded
                                    /\ \A j \in 1..(k - 1) : ~w.state.tracks[j].loaded
                                 THEN [w.state.tracks[k] EXCEPT !.idx =
                                          clampJs(w.state.tracks[k].idx + safeInt(step, 1), 0,
                                                  Max(0, Len(w.state.tracks[k].words) - 1))]
                                 ELSE w.state.tracks[k]]])}}) :
          w \in {w0}})

advance(w0, step) ==
    Only({IF ~getAnyLoadedTrack(w.state) THEN w
          ELSE Only({IF moved.state.isPlaying /\ getAllAtEnd(moved.state) THEN pause(moved) ELSE moved :
                     moved \in {updateControlsEnabledState(
                         [w EXCEPT !.state.tracks =
                             [k \in 1..Len(w.state.tracks) |->
                                 IF w.state.tracks[k].loaded
                                 THEN [w.state.tracks[k] EXCEPT !.idx =
                                          clampJs(w.state.tracks[k].idx + safeInt(step, 1), 0,
                                                  Max(0, Len(w.state.tracks[k].words) - 1))]
                                 ELSE w.state.tracks[k]]])}}) :
          w \in {w0}})

resetAll(w0) ==
    Only({IF w.state.isPlaying THEN pause(w) ELSE w :
          w \in {updateControlsEnabledState(
                    [w0 EXCEPT !.state.tracks =
                        [k \in 1..Len(w0.state.tracks) |-> [w0.state.tracks[k] EXCEPT !.idx = 0]]])}})

\* What the wpm controls of app.js hand to setWpm: text that is no number,
\* numbers outside [50, 1500].
JsWpmInputs == {WpmNaN, WpmNum(5000), WpmNum(10)}

\* ----------------------------------------------------------- app.js actions
Store(w) ==
    /\ state' = w.state
    /\ els' = w.els
    /\ intervals' = w.intervals

JsAddTrack ==
    /\ Len(state.tracks) < MaxTracks
    /\ state.nextTrackId <= MaxTrackId
    /\ Store(addTrackJs(W))
    /\ UNCHANGED <<reads, engineVars, codecVars, tsxVars, auxVars>>

\* The Remove button of a track; removing the only track creates a new one.
JsRemoveTrack ==
    \E k \in 1..Len(state.tracks) :
        /\ Len(state.tracks) > 1 \/ state.nextTrackId <= MaxTrackId
        /\ Store(removeTrackJs(W, state.tracks[k].id))
        /\ UNCHANGED <<reads, engineVars, codecVars, tsxVars, auxVars>>

\* The change handler of a file input, up to its await.
JsStartLoad ==
    \E k \in 1..Len(state.tracks), file \in Files :
        /\ Cardinality(reads) < MaxLoads
        /\ reads' = reads \cup {[trackId |-> state.tracks[k].id, file |-> file]}
        /\ UNCHANGED <<state, els, intervals, engineVars, codecVars, tsxVars, auxVars>>

\* file.text() resolved: setTrackWords(track.id, file.name, tokenize(text)).
JsFinishLoad ==
    \E l \in reads :
        /\ reads' = reads \ {l}
        /\ Store(setTrackWords(W, l.trackId, l.file.name, WordsOf(l.file)))
        /\ UNCHANGED <<engineVars, codecVars, tsxVars, auxVars>>

\* file.text() rejected: setTrackWords(track.id, file.name, []).
JsFailLoad ==
    \E l \in reads :
        /\ reads' = reads \ {l}
        /\ Store(setTrackWords(W, l.trackId, l.file.name, <<>>))
        /\ UNCHANGED <<engineVars, codecVars, tsxVars, auxVars>>

JsSetWpm ==
    \E v \in JsWpmInputs :
        /\ Store(setWpm(W, v))
        /\ UNCHANGED <<reads, engineVars, codecVars, tsxVars, auxVars>>

JsClickPlayPause ==
    /\ ~els.playPauseBtn
    /\ Store(togglePlayPause(W))
    /\ UNCHANGED <<reads, engineVars, codecVars, tsxVars, auxVars>>

JsKeySpace ==
    /\ Store(togglePlayPause(W))
    /\ UNCHANGED <<reads, engineVars, codecVars, tsxVars, auxVars>>

JsClickNext ==
    /\ ~els.nextBtn
    /\ Store(advance(W, WpmNum(1)))
    /\ UNCHANGED <<reads, engineVars, codecVars, tsxVars, auxVars>>

JsClickPrev ==
    /\ ~els.prevBtn
    /\ Store(advance(W, WpmNum(-1)))
    /\ UNCHANGED <<reads, engineVars, codecVars, tsxVars, auxVars>>

JsKeyArrowRight ==
    /\ Store(advance(W, WpmNum(1)))
    /\ UNCHANGED <<reads, engineVars, codecVars, tsxVars, auxVars>>

JsKeyArrowLeft ==
    /\ Store(advance(W, WpmNum(-1)))
    /\ UNCHANGED <<reads, engineVars, codecVars, tsxVars, auxVars>>

JsClickReset ==
    /\ ~els.resetBtn
    /\ Store(resetAll(W))
    /\ UNCHANGED <<reads, engineVars, codecVars, tsxVars, auxVars>>

\* The interval callback: advance(1).
JsTick ==
    \E t \in intervals :
        /\ Store(advance(W, WpmNum(1)))
        /\ UNCHANGED <<reads, engineVars, codecVars, tsxVars, auxVars>>

NextReader ==
    \/ JsAddTrack
    \/ JsRemoveTrack
    \/ JsStartLoad
    \/ JsFinishLoad
    \/ JsFailLoad
    \/ JsSetWpm
    \/ JsClickPlayPause
    \/ JsKeySpace
    \/ JsClickNext
    \/ JsClickPrev
    \/ JsKeyArrowRight
    \/ JsKeyArrowLeft
    \/ JsClickReset
    \/ JsTick

SpecReader == Init /\ [][NextReader]_vars

\* ================================================= src/src/app.tsx component
\* The earlier Preact component: the hooks tracks, wordIndex, wpm and
\* isPlaying, the timer and keyboard effects, no seek slider, no resume
\* dialog, no clamp effect and no anyLoaded effect.  tsx holds its state in
\* the shape of Cur (isSeeking stays FALSE, tracks carry no fingerprint), so
\* that the handlers and effects it shares word for word with
\* src/unnamed/part_001 are the same operators.
FileThree == [name |-> <<"3">>, text |-> <<"a", " ", "b", " ", "c">>]
FileTen ==
    [name |-> <<"1", "0">>,
     text |-> <<"a", " ", "b", " ", "c", " ", "d", " ", "e", " ", "f", " ", "g", " ", "h", " ",
                "i", " ", "j">>]

TsxFiles == {FileThree, FileTen}

TsxWords == {[file |-> f, words |-> tokenize(f.text)] : f \in TsxFiles}
TsxWordsOf(f) == (CHOOSE e \in TsxWords : e.file = f).words

TsxUsedIds == TrackIds(tsx.tracks) \cup {l.trackId : l \in tsxLoads}

addTrackTsx(s) ==
    [s EXCEPT !.tracks = Append(s.tracks, EmptyTrack(id(TsxUsedIds), Len(s.tracks) + 1))]

removeTrackTsx(s, trackId) ==
    LET next == FilterOut(s.tracks, trackId)
    IN [s EXCEPT !.tracks = IF Len(next) # 0 THEN next ELSE <<EmptyTrack(id(TsxUsedIds), 1)>>]

onFileWriteTsx(s, trackId, file) ==
    [s EXCEPT !.tracks = [k \in 1..Len(s.tracks) |->
                             IF s.tracks[k].id = trackId
                             THEN [s.tracks[k] EXCEPT !.name = file.name, !.rawText = file.text,
                                                      !.words = TsxWordsOf(file)]
                             ELSE s.tracks[k]],
              !.wordIndex = 0]

\* The word part_001 shows for track t: t.words[effectiveIndex] ?? ''
current(t, i) ==
    IF effectiveIndex(t, i) + 1 <= Len(t.words) THEN t.words[effectiveIndex(t, i) + 1] ELSE <<>>

\* The word app.tsx shows for track t: t.words[wordIndex] ?? ''
currentTsx(t, i) == IF i + 1 <= Len(t.words) THEN t.words[i + 1] ELSE <<>>

\* The effects of one render of app.tsx; none of them sets state.
EffectPassTsx(prev, r) ==
    Only({KeyboardEffect(prev, r, a1) : a1 \in {TimerEffect(prev, r, r)}})

CommitTsx(s) == tsx' = EffectPassTsx(tsx, s)

TsxAddTrack ==
    /\ Len(tsx.tracks) < MaxTracks
    /\ CommitTsx(addTrackTsx(tsx))
    /\ UNCHANGED <<tsxPauses, tsxLoads, engineVars, codecVars, readerVars, auxVars>>

TsxRemoveTrack ==
    \E k \in 1..Len(tsx.tracks) :
        \E r \in {removeTrackTsx(tsx, tsx.tracks[k].id)} :
            /\ CommitTsx(Renumber(r))
            /\ tsxLoads' = RenumberLoads(tsxLoads, r.tracks)
            /\ UNCHANGED <<tsxPauses, engineVars, codecVars, readerVars, auxVars>>

TsxStartLoad ==
    \E k \in 1..Len(tsx.tracks), file \in TsxFiles :
        /\ Cardinality(tsxLoads) < MaxLoads
        /\ tsxLoads' = tsxLoads \cup {[trackId |-> tsx.tracks[k].id, file |-> file]}
        /\ UNCHANGED <<tsx, tsxPauses, engineVars, codecVars, readerVars, auxVars>>

TsxFinishLoad ==
    \E l \in tsxLoads :
        /\ tsxLoads' = tsxLoads \ {l}
        /\ CommitTsx(onFileWriteTsx(tsx, l.trackId, l.file))
        /\ UNCHANGED <<tsxPauses, engineVars, codecVars, readerVars, auxVars>>

TsxClickNext ==
    /\ anyLoaded(tsx.tracks) /\ canAdvance(tsx)
    /\ CommitTsx(nextWord(tsx, maxLen(tsx.tracks)))
    /\ UNCHANGED <<tsxPauses, tsxLoads, engineVars, codecVars, readerVars, auxVars>>

TsxKeyArrowRight ==
    /\ CommitTsx(nextWord(tsx, tsx.keyMaxLen))
    /\ UNCHANGED <<tsxPauses, tsxLoads, engineVars, codecVars, readerVars, auxVars>>

TsxClickPrev ==
    /\ anyLoaded(tsx.tracks) /\ canRewind(tsx)
    /\ CommitTsx(prevWord(tsx))
    /\ UNCHANGED <<tsxPauses, tsxLoads, engineVars, codecVars, readerVars, auxVars>>

TsxKeyArrowLeft ==
    /\ CommitTsx(prevWord(tsx))
    /\ UNCHANGED <<tsxPauses, tsxLoads, engineVars, codecVars, readerVars, auxVars>>

TsxRestart ==
    /\ anyLoaded(tsx.tracks) /\ tsx.wordIndex # 0
    /\ CommitTsx([tsx EXCEPT !.wordIndex = 0])
    /\ UNCHANGED <<tsxPauses, tsxLoads, engineVars, codecVars, readerVars, auxVars>>

TsxClickPlayPause ==
    /\ anyLoaded(tsx.tracks)
    /\ CommitTsx([tsx EXCEPT !.isPlaying = ~tsx.isPlaying])
    /\ UNCHANGED <<tsxPauses, tsxLoads, engineVars, codecVars, readerVars, auxVars>>

TsxKeySpace ==
    /\ CommitTsx([tsx EXCEPT !.isPlaying = ~tsx.isPlaying])
    /\ UNCHANGED <<tsxPauses, tsxLoads, engineVars, codecVars, readerVars, auxVars>>

TsxSetWpm ==
    \E v \in WpmInputs :
        /\ CommitTsx([tsx EXCEPT !.wpm = wpmFromInput(v)])
        /\ UNCHANGED <<tsxPauses, tsxLoads, engineVars, codecVars, readerVars, auxVars>>

TsxTick ==
    \E t \in tsx.timers :
        /\ tsxPauses = 0
        /\ tsxPauses' = IF tickStops(tsx.wordIndex, t.maxLen) THEN tsxPauses + 1 ELSE tsxPauses
        /\ CommitTsx([tsx EXCEPT !.wordIndex = tickNext(tsx.wordIndex, t.maxLen)])
        /\ UNCHANGED <<tsxLoads, engineVars, codecVars, readerVars, auxVars>>

TsxDeferredPause ==
    /\ tsxPauses > 0
    /\ tsxPauses' = tsxPauses - 1
    /\ CommitTsx([tsx EXCEPT !.isPlaying = FALSE])
    /\ UNCHANGED <<tsxLoads, engineVars, codecVars, readerVars, auxVars>>

NextTsx ==
    \/ TsxAddTrack
    \/ TsxRemoveTrack
    \/ TsxStartLoad
    \/ TsxFinishLoad
    \/ TsxClickNext
    \/ TsxKeyArrowRight
    \/ TsxClickPrev
    \/ TsxKeyArrowLeft
    \/ TsxRestart
    \/ TsxClickPlayPause
    \/ TsxKeySpace
    \/ TsxSetWpm
    \/ TsxTick
    \/ TsxDeferredPause

SpecTsx == Init /\ [][NextTsx]_vars

\* ================================================================ tokenizers
\* src/unnamed/part_000: splitIntoWords.  "bom" stands for U+FEFF, which
\* the class \s contains like U+00A0.
\* raw.replace(/^\uFEFF/, '')
StripBom(raw) == IF raw # <<>> /\ Head(raw) = "bom" THEN Tail(raw) ELSE raw

\* .replace(/\s+/g, ' '): every maximal whitespace run becomes one space.
RECURSIVE CollapseFrom(_, _, _)
CollapseFrom(text, k, acc) ==
    IF k > Len(text) THEN acc
    ELSE IF text[k] \in Whitespace
         THEN IF k > 1 /\ text[k - 1] \in Whitespace
              THEN CollapseFrom(text, k + 1, acc)
              ELSE CollapseFrom(text, k + 1, Append(acc, " "))
         ELSE CollapseFrom(text, k + 1, Append(acc, text[k]))

CollapseWhitespace(text) == CollapseFrom(text, 1, <<>>)

\* String.prototype.split(' '): the pieces between the single spaces.
RECURSIVE SplitSpaceFrom(_, _, _, _)
SplitSpaceFrom(text, k, cur, acc) ==
    IF k > Len(text) THEN Append(acc, cur)
    ELSE IF text[k] = " " THEN SplitSpaceFrom(text, k + 1, <<>>, Append(acc, cur))
         ELSE SplitSpaceFrom(text, k + 1, Append(cur, text[k]), acc)

splitIntoWords(raw) ==
    LET text == Trim(CollapseWhitespace(StripBom(raw)))
    IN IF text = <<>> THEN <<>> ELSE SplitSpaceFrom(text, 1, <<>>, <<>>)

\* The longest text handed to the tokenizers.
MaxTextLen == 4

TextChars == {"a", "b", " ", "nbsp", "\n", "bom"}
Texts == UNION {[1..n -> TextChars] : n \in 0..MaxTextLen}

Split(text) ==
    [t |-> "split", tokenize |-> tokenize(text), splitIntoWords |-> splitIntoWords(text),
     tokenizeJs |-> tokenizeJs(text)]

\* A text is chosen.
TakeText ==
    /\ sample = <<>> /\ parts = NotSplit
    /\ sample' \in Texts \ {<<>>}
    /\ UNCHANGED <<parts, userGone, latestPick, engineVars, codecVars, readerVars, tsxVars>>

\* tokenize(text) of part_001 and app.js, splitIntoWords(text) of part_000.
Tokenize ==
    /\ parts = NotSplit
    /\ parts' = Split(sample)
    /\ UNCHANGED <<sample, userGone, latestPick, engineVars, codecVars, readerVars, tsxVars>>

NextTokenize ==
    \/ TakeText
    \/ Tokenize

SpecTokenize == Init /\ [][NextTokenize]_vars

\* ================================================== pace in both readers
\* part_001 and app.js are two pages: a behaviour uses one of them while the
\* other stays as it was loaded.
NextPaceBoth ==
    \/ ReaderInit /\ StartLoad
    \/ ReaderInit /\ FinishLoad
    \/ ReaderInit /\ ClickPlayPause
    \/ ReaderInit /\ SetPace
    \/ ReaderInit /\ Tick
    \/ ReaderInit /\ DeferredPause
    \/ EngineInit /\ JsStartLoad
    \/ EngineInit /\ JsFinishLoad
    \/ EngineInit /\ JsClickPlayPause
    \/ EngineInit /\ JsSetWpm
    \/ EngineInit /\ JsTick

SpecPaceBoth == Init /\ [][NextPaceBoth]_vars

\* ======================================================= export and import
\* The dialog of track k is opened, the token it shows is copied, pasted
\* back into the same dialog and applied.
ExportImport(k) ==
    /\ canHash(tracks[k])
    /\ \E o \in {applyPasted(Cur, tracks[k],
                              currentHash(tracks[k], effectiveIndex(tracks[k], wordIndex)))} :
           /\ Commit(o.s)
           /\ status' = o.status
    /\ UNCHANGED <<pendingPauses, loads, codecVars, readerVars, tsxVars, auxVars>>

ApplyExported == \E k \in 1..Len(tracks) : ExportImport(k)

NextResume ==
    \/ AddTrack
    \/ RemoveTrack
    \/ StartLoad
    \/ FinishLoad
    \/ ClickNext
    \/ ClickPrev
    \/ ApplyExported
    \/ CloseDialog

SpecResume == Init /\ [][NextResume]_vars

\* ==================================================== unattended playback
\* The user stops acting while the engine is Playing with a loaded track, no
\* scrub in progress and no load in flight; from then on only the timer and
\* the deferred pause run.
UserLeaves ==
    /\ ~userGone
    /\ isPlaying /\ ~isSeeking /\ anyLoaded(tracks) /\ loads = {}
    /\ userGone' = TRUE
    /\ UNCHANGED <<sample, parts, latestPick, engineVars, codecVars, readerVars, tsxVars>>

NextUnattended ==
    \/ ~userGone /\ StartLoad
    \/ ~userGone /\ FinishLoad
    \/ ~userGone /\ ClickPlayPause
    \/ ~userGone /\ ClickNext
    \/ ~userGone /\ ClickPrev
    \/ ~userGone /\ SeekStart
    \/ ~userGone /\ SeekEnd
    \/ UserLeaves
    \/ Tick
    \/ DeferredPause

SpecUnattended ==
    Init /\ [][NextUnattended]_vars /\ WF_vars(Tick) /\ WF_vars(DeferredPause)

\* ========================================================= overlapping loads
\* The largest number of onFile calls of one track in flight together.
MaxOverlap == 2

\* A file is picked for the first track while earlier picks may still be
\* awaiting file.text() and sha256Hex.
StartOverlappingLoad ==
    \E file \in Files :
        /\ Cardinality(loads) < MaxOverlap
        /\ [trackId |-> tracks[1].id, file |-> file] \notin loads
        /\ loads' = loads \cup {[trackId |-> tracks[1].id, file |-> file]}
        /\ latestPick' = file
        /\ DialogClosed
        /\ UNCHANGED <<tracks, wordIndex, wpm, isPlaying, isSeeking, timerRef, timers,
                       keyMaxLen, pendingPauses, sample, parts, userGone,
                       codecVars, readerVars, tsxVars>>

NextOverlap ==
    \/ StartOverlappingLoad
    \/ FinishLoad
    \/ ClickPlayPause
    \/ Tick
    \/ DeferredPause

SpecOverlap == Init /\ [][NextOverlap]_vars

\* =============================================================== properties
\* ----------------------------------------------------------------------- C1
\* C1: after any sequence of addTrack, removeTrack, completed load, tick,
\* nextWord, prevWord, Restart, slider seek and resume-token apply, the shared
\* cursor satisfies 0 <= wordIndex <= maxLen - 1 whenever some track has
\* words, and wordIndex = 0 when no track has words.
C1_CursorInRange ==
    IF anyLoaded(tracks)
    THEN 0 <= wordIndex /\ wordIndex <= maxLen(tracks) - 1
    ELSE wordIndex = 0

\* A token with index 99 was applied to a five-word track beside a two-word
\* track: the cursor stands on the last word.
C1_Witness ==
    /\ status = StatusResumed(5)
    /\ wordIndex = 4
    /\ Len(tracks) = 2
    /\ \E k \in 1..Len(tracks) : Len(tracks[k].words) = 2

\* ----------------------------------------------------------------------- C2
\* C2: auto-stop.  Each tick sets wordIndex to min(wordIndex + 1, maxLen - 1);
\* exactly when the new index is maxLen - 1 the pause is scheduled; no tick
\* fires between that tick and the pause; the pause leaves the engine Paused
\* with no timer.  The index never wraps.
C2_AutoStop ==
    [][/\ Tick => /\ wordIndex' = Min(wordIndex + 1, maxLen(tracks) - 1)
                  /\ wordIndex' >= wordIndex
                  /\ (wordIndex' = maxLen(tracks) - 1 <=> pendingPauses' = 1)
       /\ pendingPauses > 0 => ~Tick
       /\ DeferredPause => ~isPlaying' /\ timers' = {} /\ wordIndex' = wordIndex]_vars

\* One track of five words, played to its last word: the tick that reached
\* index 4 has scheduled the pause.
C2_Witness ==
    /\ Len(tracks) = 1
    /\ Len(tracks[1].words) = 5
    /\ wordIndex = 4
    /\ isPlaying
    /\ pendingPauses = 1

\* ----------------------------------------------------------------------- C3
\* C3: cancel before reschedule.  Every live interval timer is the one
\* timerRef holds and was created for the current render: the engine is
\* Playing, no seek gesture is in progress, maxLen is not 0, and the timer's
\* maxLen and period are the current ones.  So no timer that a pause, a seek
\* start, a pace change or a collapse of maxLen cancelled can still tick.
C3_NoStaleTimer ==
    \A t \in timers :
        /\ t.id = timerRef
        /\ isPlaying /\ ~isSeeking
        /\ maxLen(tracks) # 0
        /\ t.maxLen = maxLen(tracks)
        /\ t.ms = intervalMs(wpm)

\* Playing two tracks after the pace was changed to 2000 wpm: the one live
\* timer has the new period.
C3_Witness ==
    /\ isPlaying
    /\ wpm = 2000
    /\ Len(tracks) = 2
    /\ timers = {[id |-> timerRef, maxLen |-> 5, ms |-> 30, wpm |-> 2000]}

\* ----------------------------------------------------------------------- C4
\* C4: in every reachable state at most one tick timer is scheduled for the
\* whole engine.
C4_AtMostOneTimer == Cardinality(timers) <= 1

\* Two loaded tracks playing on one timer.
C4_Witness ==
    /\ Cardinality(timers) = 1
    /\ Len(tracks) = 2
    /\ \A k \in 1..Len(tracks) : Len(tracks[k].words) > 0

\* ----------------------------------------------------------------------- C5
\* C5: the engine is never Playing while every track has zero words.
C5_NoPlayingWithoutWords == isPlaying => anyLoaded(tracks)

\* The last loaded track went away during playback (the pause of the final
\* tick still pending): the engine is Paused.
C5_Witness ==
    /\ ~anyLoaded(tracks)
    /\ ~isPlaying
    /\ pendingPauses = 1

\* ----------------------------------------------------------------------- C6
\* C6: while a seek gesture is in progress no interval timer is live, so no
\* tick changes wordIndex; starting or ending the gesture leaves isPlaying
\* unchanged; after the gesture a timer is live exactly when the engine is
\* Playing.
C6_SeekSuspendsTicks ==
    [][/\ isSeeking => timers = {} /\ ~Tick
       /\ isSeeking' => timers' = {}
       /\ isSeeking' # isSeeking => isPlaying' = isPlaying
       /\ (isSeeking /\ ~isSeeking') => (timers' # {} <=> isPlaying')]_vars

\* A seek gesture in progress during playback.
C6_Witness ==
    /\ isSeeking
    /\ isPlaying
    /\ timers = {}
    /\ wordIndex = 3

\* ----------------------------------------------------------------------- C7
\* C7: a rejected resume-token import (malformed token, unsupported version,
\* fingerprint mismatch) leaves wordIndex, isPlaying, the pace and the track
\* registry unchanged.
Rejections ==
    {ErrNotV1, ErrAtob, ErrJson, ErrVersion, ErrFingerprint, ErrIndex, MsgMismatch, MsgLoadFirst}

C7_RejectedImportChangesNothing ==
    [][(status'.msg \in Rejections /\ ApplyPasted) =>
          /\ wordIndex' = wordIndex
          /\ isPlaying' = isPlaying
          /\ wpm' = wpm
          /\ tracks' = tracks]_vars

\* A token of another text was refused during playback at 2000 wpm, past the
\* first word.
C7_Witness ==
    /\ status = StatusOf(MsgMismatch)
    /\ isPlaying
    /\ wpm = 2000
    /\ wordIndex = 1

\* ----------------------------------------------------------------------- C8
\* { v: 1, fp, i } with a non-empty string fp and a non-negative integer i.
IsResumePayloadV1(p) ==
    /\ p.t = "obj"
    /\ IsOne(Get(p, KeyV))
    /\ Get(p, KeyFp).t = "str" /\ Get(p, KeyFp).s # <<>>
    /\ Get(p, KeyI).t = "num" /\ ~Get(p, KeyI).neg /\ Get(p, KeyI).frac = <<>>

IsDefinedMember(m) == m.val.t # "undefined"

\* A record without its undefined members.
Defined(p) == JObj(SelectSeq(p.members, IsDefinedMember))

\* C8: round trip.  For every payload { v: 1, fp, i } with a non-empty
\* fingerprint and a non-negative integer index, with or without n and w,
\* decodeResumeHash(encodeResumeHash(payload)) returns a payload equal to it.
C8_RoundTrip ==
    (decoded # NotDecoded /\ IsResumePayloadV1(given)) =>
        (decoded.ok /\ decoded.payload = Defined(given))

\* A payload with n and w, a fingerprint that needs escaping, and a token
\* that uses the URL-safe alphabet, decoded.
C8_Witness ==
    /\ decoded.ok
    /\ IsResumePayloadV1(given)
    /\ Get(given, KeyFp) = JStr(<<"\"", "\\", "nbsp">>)
    /\ Get(given, KeyN).t = "str"
    /\ Get(given, KeyW).t = "str"
    /\ \E k \in 1..Len(token) : token[k] \in {"-", "_"}

\* ----------------------------------------------------------------------- C9
\* C9: a token whose record has a version field other than the number 1 is
\* rejected with 'Unsupported hash version.', whatever its fingerprint and
\* index fields are, and no payload with v # 1 is ever returned.
C9_VersionCheckedFirst ==
    /\ (decoded # NotDecoded /\ given.t = "obj" /\ Get(given, KeyV).t # "undefined"
           /\ ~IsOne(Get(given, KeyV)))
          => decoded = Thrown(ErrVersion)
    /\ decoded.ok => IsOne(Get(decoded.payload, KeyV))

\* A v: 2 record without fingerprint and index, rejected for its version.
C9_Witness ==
    /\ decoded = Thrown(ErrVersion)
    /\ Get(given, KeyV) = JInt(2)
    /\ Get(given, KeyFp).t = "undefined"
    /\ Get(given, KeyI).t = "undefined"

\* ---------------------------------------------------------------------- C10
\* C10: a token whose body is JSON that is no well-formed record (null, a
\* number, a string, an array, an object with no version field) is reported
\* as malformed, an error distinct from the unsupported-version error.
C10_NonRecordIsMalformed ==
    (decoded # NotDecoded
        /\ (given.t \in {"null", "num", "str", "arr"}
               \/ (given.t = "obj" /\ Get(given, KeyV).t = "undefined")))
       => (~decoded.ok /\ decoded.error # ErrVersion)

\* ---------------------------------------------------------------------- C11
\* The index a token carries, truncated toward zero.
TokenIndex(p) ==
    IF Get(Decoded(p).payload, KeyI).neg
    THEN 0 - Get(Decoded(p).payload, KeyI).int
    ELSE Get(Decoded(p).payload, KeyI).int

\* The token p passes validation against track t.
Validated(t, p) ==
    /\ t.fingerprint # undefined
    /\ Decoded(p).ok
    /\ Get(Decoded(p).payload, KeyFp).s = t.fingerprint

\* Where a validated index lands among maxLen words.
Landing(i, n) == IF i < 0 \/ n = 0 THEN 0 ELSE IF i > n - 1 THEN n - 1 ELSE i

\* C11: a validated token sets wordIndex to clamp(trunc(i), 0, maxLen - 1),
\* whether i is negative, fractional or beyond the text: the cursor is in
\* range, and an index beyond the maximum lands on the last word.
C11_ValidTokenLandsInRange ==
    [][(status'.msg = MsgResumed /\ ApplyPasted) =>
          /\ 0 <= wordIndex' /\ wordIndex' <= Max(0, maxLen(tracks) - 1)
          /\ status'.n = wordIndex' + 1
          /\ tracks' = tracks
          /\ \E k \in 1..Len(tracks), p \in PasteValues :
                /\ Validated(tracks[k], p)
                /\ wordIndex' = Landing(TokenIndex(p), maxLen(tracks))
          /\ \A k \in 1..Len(tracks), p \in PasteValues :
                Validated(tracks[k], p) =>
                    applyPasted(Cur, tracks[k], p).s.wordIndex
                        = Landing(TokenIndex(p), maxLen(tracks))]_vars

\* The token with index 2.7 was applied to the five-word text: the cursor
\* stands on the third word.
C11_Witness ==
    /\ status = StatusResumed(3)
    /\ wordIndex = 2
    /\ \E k \in 1..Len(tracks) : tracks[k].fingerprint = FileFingerprint[FileFive]

\* ---------------------------------------------------------------------- C12
\* C12: the registry always holds at least one track; removing the only
\* track leaves exactly one track, empty (no words, no text, no fingerprint);
\* removeTrack of an id that no track has leaves the tracks as they are.
C12_AtLeastOneTrack ==
    [][/\ Len(tracks) >= 1 /\ Len(tracks') >= 1
       /\ (Len(tracks) = 1 /\ RemoveTrack) =>
              /\ Len(tracks') = 1
              /\ tracks'[1].words = <<>> /\ tracks'[1].rawText = <<>>
              /\ tracks'[1].fingerprint = undefined
       /\ \A absent \in (IdSpace \cup {Gone}) \ TrackIds(tracks) :
              removeTrack(Cur, absent).tracks = tracks]_vars

\* The only track, loaded and played to its end, was removed before the
\* pause of the final tick ran: one empty track is left.
C12_Witness ==
    /\ pendingPauses = 1
    /\ tracks = <<EmptyTrack(1, 1)>>
    /\ wordIndex = 0

\* ---------------------------------------------------------------------- C13
\* C13: a load that completes when no track has its target id any more is a
\* no-op: tracks, wordIndex, isPlaying and the pace are unchanged.
C13_StaleLoadIsNoOp ==
    [][(loads # {} /\ (\A l \in loads : l.trackId \notin TrackIds(tracks)) /\ FinishLoad) =>
          /\ tracks' = tracks
          /\ wordIndex' = wordIndex
          /\ isPlaying' = isPlaying
          /\ wpm' = wpm]_vars

\* ---------------------------------------------------------------------- C14
\* C14: in every reachable state, a track has a fingerprint if and only if
\* it has words.
C14_FingerprintIffWords ==
    \A k \in 1..Len(tracks) :
        tracks[k].fingerprint # undefined <=> Len(tracks[k].words) # 0

\* ---------------------------------------------------------------------- C15
\* C15: whenever maxLen becomes 0 (the last loaded track is removed, or
\* reloaded with a text without words), wordIndex is 0, the engine is Paused
\* even if it was Playing, and no timer is left.
C15_CollapseStopsPlayback ==
    [][(maxLen(tracks) # 0 /\ maxLen(tracks') = 0) =>
          /\ wordIndex' = 0
          /\ ~isPlaying'
          /\ timers' = {}
          /\ timerRef' = NULL]_vars

\* Playback reached the last word, and before the pause of that tick ran
\* the track was reloaded with a blank file.
C15_Witness ==
    /\ pendingPauses = 1
    /\ Len(tracks) = 1
    /\ tracks[1].fingerprint = FileFingerprint[FileBlank]
    /\ wordIndex = 0 /\ ~isPlaying /\ timers = {}

\* ---------------------------------------------------------------------- C16
\* Every loaded track of the reader moved by step, within its own range.
MovedBy(step) ==
    /\ Len(state'.tracks) = Len(state.tracks)
    /\ \A k \in 1..Len(state.tracks) :
          IF state.tracks[k].loaded
          THEN /\ state'.tracks[k] = [state.tracks[k] EXCEPT !.idx = state'.tracks[k].idx]
               /\ state'.tracks[k].idx =
                      (IF state.tracks[k].idx + step < 0 THEN 0
                       ELSE IF state.tracks[k].idx + step > Len(state.tracks[k].words) - 1
                            THEN Len(state.tracks[k].words) - 1
                            ELSE state.tracks[k].idx + step)
          ELSE state'.tracks[k] = state.tracks[k]

\* C16: a manual next or prev moves the cursor by exactly one within its
\* range (no change at the boundary) and never changes Playing/Paused, also
\* when next is invoked while Playing and lands on the final word.
C16_ManualStepKeepsPlayState ==
    [][/\ (JsClickNext \/ JsKeyArrowRight) =>
              (MovedBy(1) /\ state'.isPlaying = state.isPlaying)
       /\ (JsClickPrev \/ JsKeyArrowLeft) =>
              (MovedBy(-1) /\ state'.isPlaying = state.isPlaying)]_vars

\* ---------------------------------------------------------------------- C20
\* C20: in the reader of app.js every advance(step), from the timer, the
\* Next and Prev buttons or the arrow keys, moves every loaded track by the
\* same step in the same operation, each clamped to [0, words.length - 1];
\* tracks that are not loaded are not changed.
C20_AdvanceMovesAllLoaded ==
    [][/\ (JsTick \/ JsClickNext \/ JsKeyArrowRight) => MovedBy(1)
       /\ (JsClickPrev \/ JsKeyArrowLeft) => MovedBy(-1)]_vars

\* Two loaded tracks: a two-word track held at its
\* last word, a five-word track three steps in, playback still running.
C20_Witness ==
    /\ state.isPlaying
    /\ intervals # {}
    /\ Len(state.tracks) = 2
    /\ \E k \in 1..2 : Len(state.tracks[k].words) = 2 /\ state.tracks[k].idx = 1
    /\ \E k \in 1..2 : Len(state.tracks[k].words) = 5 /\ state.tracks[k].idx = 3

\* ---------------------------------------------------------------------- C17
\* C17: every track that has words displays words[clamp(wordIndex, 0,
\* len - 1)]: a track shorter than the cursor holds at its last word (tracks
\* of 3 and 10 words with the cursor at 7 show their words 2 and 7).
C17_TrackShowsClampedWord ==
    \A k \in 1..Len(tsx.tracks) :
        Len(tsx.tracks[k].words) # 0 =>
            currentTsx(tsx.tracks[k], tsx.wordIndex) =
                tsx.tracks[k].words[
                    (IF tsx.wordIndex > Len(tsx.tracks[k].words) - 1
                     THEN Len(tsx.tracks[k].words) - 1
                     ELSE tsx.wordIndex) + 1]

\* ---------------------------------------------------------------------- C18
\* C18: a pace change while Playing tears the running timer down and starts
\* one for the new pace, for every accepted pace change, so the timer that
\* is live afterwards was created at the new pace with the new period; a
\* pace change while Paused schedules no timer.
C18_PaceChangeRestartsTimer ==
    [][(wpm' # wpm /\ SetPace) =>
          IF isPlaying
          THEN \A t \in timers' : t.wpm = wpm' /\ t.ms = intervalMs(wpm')
          ELSE timers' = {}]_vars

\* ---------------------------------------------------------------------- C19
\* What a track holds, apart from its id.
Contents(t) == [name |-> t.name, rawText |-> t.rawText, words |-> t.words,
                fingerprint |-> t.fingerprint]

\* C19: removing one of several tracks changes wordIndex only by clamping it
\* to the new maxLen; the pace is unchanged and the remaining tracks keep
\* their contents and their order.
C19_RemoveOnlyReclamps ==
    [][(Len(tracks) > 1 /\ RemoveTrack) =>
          /\ wpm' = wpm
          /\ wordIndex' = Min(wordIndex, Max(0, maxLen(tracks') - 1))
          /\ Len(tracks') = Len(tracks) - 1
          /\ \E k \in 1..Len(tracks) :
                 \A j \in 1..Len(tracks') :
                     Contents(tracks'[j]) = Contents(tracks[IF j < k THEN j ELSE j + 1])]_vars

\* The five-word track was removed while its load was still awaited; the
\* two-word track remains and the cursor rests on its last word.
C19_Witness ==
    /\ Len(tracks) = 1
    /\ tracks[1].words = FileWords[FileXY]
    /\ wordIndex = 1
    /\ \E l \in loads : l.trackId = Gone /\ l.file = FileFive

\* ---------------------------------------------------------------------- C22
\* The positions where a maximal whitespace-free run of text begins.
RunStarts(text) ==
    {i \in 1..Len(text) : text[i] \notin Whitespace /\ (i = 1 \/ text[i - 1] \in Whitespace)}

\* r lists the maximal whitespace-free runs of text in their order.
IsRunsOf(r, text) ==
    /\ Len(r) = Cardinality(RunStarts(text))
    /\ \A k \in 1..Len(r) :
           LET b == CHOOSE i \in RunStarts(text) :
                        Cardinality({j \in RunStarts(text) : j < i}) = k - 1
               e == b + Len(r[k]) - 1
           IN /\ r[k] # <<>>
              /\ \A j \in 1..Len(r[k]) : r[k][j] \notin Whitespace
              /\ e <= Len(text)
              /\ r[k] = SubSeq(text, b, e)
              /\ (e = Len(text) \/ text[e + 1] \in Whitespace)

\* C22: the tokenizer returns the maximal whitespace-free runs of its input
\* in their original order, non-breaking space counting as whitespace: no
\* token is empty or contains whitespace, and an empty or all-whitespace
\* text gives the empty sequence.
C22_TokensAreMaximalRuns ==
    parts # NotSplit =>
        /\ IsRunsOf(parts.tokenize, sample)
        /\ IsRunsOf(parts.splitIntoWords, sample)
        /\ IsRunsOf(parts.tokenizeJs, sample)
        /\ (\A i \in 1..Len(sample) : sample[i] \in Whitespace) => parts.tokenize = <<>>

C22_Witness ==
    /\ sample = <<"nbsp", "a", " ", "b">>
    /\ parts # NotSplit
    /\ parts.tokenize = <<<<"a">>, <<"b">>>>

\* ---------------------------------------------------------------------- C21
\* ms is Math.round(60000 / w): the integer nearest to the quotient, the
\* half rounded up.
IsRoundedPeriod(ms, w) ==
    /\ ms \in Nat /\ ms >= 1
    /\ 2 * ms * w - w <= 120000
    /\ 120000 < 2 * ms * w + w

\* C21: for every pace w within the bound the period of a newly scheduled
\* timer is round(60000 / w) milliseconds, a positive integer, and the pace
\* the engine stores is within the bound after any pace input (60..2000 in
\* part_001, 50..1500 in app.js).
C21_PaceBoundedPeriodRounded ==
    /\ 60 <= wpm /\ wpm <= 2000
    /\ \A t \in timers : 60 <= t.wpm /\ t.wpm <= 2000 /\ IsRoundedPeriod(t.ms, t.wpm)
    /\ 50 <= state.wpm /\ state.wpm <= 1500
    /\ \A t \in intervals : IsRoundedPeriod(t.ms, state.wpm)
    /\ \A w \in 60..2000 : IsRoundedPeriod(intervalMs(w), w)
    /\ \A w \in 50..1500 : IsRoundedPeriod(msPerWord([wpm |-> w]), w)

\* 10 was typed while playing: the pace is 60 and the timer's period 1000 ms.
C21_Witness ==
    /\ isPlaying /\ wpm = 60
    /\ timers # {} /\ \A t \in timers : t.ms = 1000 /\ t.wpm = 60

\* ---------------------------------------------------------------------- C23
\* C23: a load replaces a track's name, words and fingerprint in one write:
\* in every state, loads in flight or not, timer running or not, a track is
\* either as it was created or holds the name, the words and the fingerprint
\* of one and the same file.
C23_LoadIsAtomic ==
    \A k \in 1..Len(tracks) :
        \/ /\ tracks[k].rawText = <<>>
           /\ tracks[k].words = <<>>
           /\ tracks[k].fingerprint = undefined
        \/ \E f \in Files :
               /\ tracks[k].name = f.name
               /\ tracks[k].rawText = f.text
               /\ tracks[k].words = tokenize(f.text)
               /\ tracks[k].fingerprint = sha256Hex(f.text)

\* Two tracks hold different files, a further load is in flight and the
\* timer is running.
C23_Witness ==
    /\ Len(tracks) = 2
    /\ tracks[1].fingerprint = FileFingerprint[FileXY]
    /\ tracks[2].fingerprint = FileFingerprint[FileFive]
    /\ loads # {}
    /\ isPlaying /\ timers # {}

\* ---------------------------------------------------------------------- C24
\* C24: in app.js the per-track indices agree with one shared cursor: there
\* is a single c such that every loaded track's idx is
\* clamp(c, 0, words.length - 1).
C24_IndicesShareOneCursor ==
    \E c \in 0..4 :
        \A k \in 1..Len(state.tracks) :
            state.tracks[k].loaded =>
                state.tracks[k].idx = clampJs(c, 0, Len(state.tracks[k].words) - 1)

\* ---------------------------------------------------------------------- C26
\* C26: when the deferred auto-pause sets isPlaying to false the cursor is on
\* the final word, whatever was interleaved between the tick that scheduled
\* it and the pause.
C26_AutoPauseOnlyAtEnd ==
    [][(isPlaying /\ ~isPlaying' /\ DeferredPause) => wordIndex = maxLen(tracks) - 1]_vars

C25_UnattendedEndsOnFinalWord ==
    (userGone /\ ~isPlaying) => wordIndex = maxLen(tracks) - 1

\* ---------------------------------------------------------------------- C27
\* C27: when loads of one track overlap, the track finally holds the name,
\* the words and the fingerprint of the load that was started last, whatever
\* order the loads complete in.
C27_LastStartedLoadWins ==
    (loads = {} /\ latestPick # NoPick) =>
        /\ tracks[1].name = latestPick.name
        /\ tracks[1].words = tokenize(latestPick.text)
        /\ tracks[1].fingerprint = sha256Hex(latestPick.text)

\* ---------------------------------------------------------------------- C28
\* C28: the token the dialog shows for a loaded track carries the track's
\* effective index, and applying it back to that track succeeds and leaves
\* the track's effective index where it was.
C28_ExportImportKeepsPosition ==
    [][\A k \in 1..Len(tracks) :
          (status' # StatusNone /\ canHash(tracks[k]) /\ ExportImport(k)) =>
              /\ status' = StatusResumed(effectiveIndex(tracks[k], wordIndex) + 1)
              /\ TokenIndex(currentHash(tracks[k], effectiveIndex(tracks[k], wordIndex)))
                     = effectiveIndex(tracks[k], wordIndex)
              /\ effectiveIndex(tracks'[k], wordIndex') = effectiveIndex(tracks[k], wordIndex)
              /\ tracks' = tracks]_vars

\* The token of a track was applied back to it with the cursor on word 1.
C28_Witness ==
    /\ Len(tracks) = 2
    /\ tracks[1].words = FileWords[FileXY]
    /\ tracks[2].words = FileWords[FileFive]
    /\ status = StatusResumed(2)
    /\ wordIndex = 1

====
